---- MODULE Spec2Model ----
(***************************************************************************)
(* Model of the revolver REPL library: the Commander (dispatch table built *)
(* by Commander::try_from and queried by Commander::parse and              *)
(* Commander::parsers) and the Looper (Looper::run over a scripted Mock    *)
(* terminal).                                                              *)
(*                                                                         *)
(* Strings are sequences of Unicode code points; str::len() is the number  *)
(* of UTF-8 bytes, so the byte width of every code point is modelled.      *)
(* List indexes stored in the maps are 0-based as in the source; the       *)
(* element of a Vec v at source index i is v[i + 1].                       *)
(***************************************************************************)
EXTENDS Integers, Sequences, FiniteSets, TLC

(***************************************************************************)
(* Bounds of the model.                                                    *)
(***************************************************************************)
\* longest list of parsers handed to Commander::try_from
MaxParsers == 2
\* longest input string (in code points) handed to Commander::parse
MaxInputLen == 3
\* longest script of lines held by the terminal's read_line delegate
MaxLines == 2
\* largest number of calls of Looper::run on one Looper
MaxRuns == 2
\* largest number of examples of a description given to the lint engine
MaxExamples == 2
\* largest number of earlier results of Commander::parse a caller holds
MaxHeld == 1

(***************************************************************************)
(* Characters and strings.                                                 *)
(***************************************************************************)
\* the character ' ' that Commander::parse searches for
Space == 32

\* code points used in inputs: ' ', 'g', 'h' and the two-byte 'e-acute'
Alphabet == {Space, 103, 104, 233}

\* UTF-8 width of one code point
Utf8Len(c) == IF c < 128 THEN 1 ELSE IF c < 2048 THEN 2 ELSE IF c < 65536 THEN 3 ELSE 4

\* str::len(): the length of a string in bytes
RECURSIVE StrLen(_)
StrLen(s) == IF s = <<>> THEN 0 ELSE Utf8Len(Head(s)) + StrLen(Tail(s))

\* number of characters of a string
CharCount(s) == Len(s)

\* all strings of at most n characters
StringsUpTo(n) == UNION {[1..k -> Alphabet] : k \in 0..n}

\* str::find(' '): byte offset of the first space, None (<<>>) or Some(<<n>>)
RECURSIVE FindFrom(_, _)
FindFrom(s, off) ==
    IF s = <<>> THEN <<>>
    ELSE IF Head(s) = Space THEN <<off>>
    ELSE FindFrom(Tail(s), off + Utf8Len(Head(s)))

find(s) == FindFrom(s, 0)

\* &s[..n]: the characters that lie in the first n bytes
RECURSIVE SliceTo(_, _)
SliceTo(s, n) ==
    IF s = <<>> \/ n <= 0 THEN <<>>
    ELSE <<Head(s)>> \o SliceTo(Tail(s), n - Utf8Len(Head(s)))

\* &s[n..]: the characters that lie after the first n bytes
RECURSIVE SliceFrom(_, _)
SliceFrom(s, n) ==
    IF s = <<>> \/ n <= 0 THEN s
    ELSE SliceFrom(Tail(s), n - Utf8Len(Head(s)))

(***************************************************************************)
(* Option and Result values.                                               *)
(***************************************************************************)
None == <<>>
Some(x) == <<x>>

Ok(v) == [ok |-> TRUE, val |-> v, err |-> <<>>]
Err(e) == [ok |-> FALSE, val |-> <<>>, err |-> e]

(***************************************************************************)
(* Command definitions (NamedCommandParser).  A definition is a record     *)
(* with its name(), its shorthand() and the command texts of its           *)
(* description().examples.  Its parse is parse_no_args, as for             *)
(* quit::Parser.                                                           *)
(***************************************************************************)
\* the Command built by a definition's ctor
CommandOf(name) == <<"Command", name>>

\* parse_no_args that also accepts an argument text of spaces
parse_no_args_blank(name, s) ==
    IF \A i \in 1..Len(s) : s[i] = Space
    THEN Ok(CommandOf(name))
    ELSE Err(<<"invalid arguments to '", name, "': '", s, "'">>)

\* NamedCommandParser::parse_no_args(s, ctor)
parse_no_args(name, s) ==
    IF s = <<>>
    THEN Ok(CommandOf(name))
    ELSE Err(<<"invalid arguments to '", name, "': '", s, "'">>)

\* NamedCommandParser::parse of a definition p
parser_parse(p, s) == parse_no_args(p.name, s)

\* names the definitions are drawn from: "h", "e-acute", "gg", "hh", "g "
Names == {<<104>>, <<233>>, <<103, 103>>, <<104, 104>>, <<103, Space>>}

\* shorthands the definitions are drawn from: none, "", "g", "gg"
Shorthands == {None, Some(<<>>), Some(<<103>>), Some(<<103, 103>>)}

\* example command lists: no example, ["", "g"], ["g", " "]
ExampleLists == {<<>>, <<<<>>, <<103>>>>, <<<<103>>, <<Space>>>>}

Parsers == [name : Names, shorthand : Shorthands, examples : ExampleLists]

ParserLists == UNION {[1..k -> Parsers] : k \in 0..MaxParsers}

ParseInputs == StringsUpTo(MaxInputLen)

(***************************************************************************)
(* Commander::try_from.                                                    *)
(***************************************************************************)
\* BTreeMap::default()
EmptyMap == [k \in {} |-> 0]

\* the value returned while no Commander exists
NoCommander == <<>>

\* the error value meaning "no error"
NoError == <<>>

\* helper duplicate_error(key)
duplicate_error(key) == <<"duplicate command parser for '", key, "'">>

\* insert that overwrites an occupied entry instead of failing
insert_overwrite(key, value, map) ==
    [err |-> NoError, map |-> [k \in DOMAIN map \cup {key} |->
                                 IF k = key THEN value ELSE map[k]]]

\* insert that stores the position after the given list index
insert_off_by_one(key, value, map) ==
    IF key \notin DOMAIN map
    THEN [err |-> NoError, map |-> map @@ (key :> value + 1)]
    ELSE [err |-> <<"duplicate command parser for '", key, "'">>, map |-> map]

\* helper insert(key, value, map): the map after the call, or the error
insert(key, value, map) ==
    IF key \notin DOMAIN map
    THEN [err |-> NoError, map |-> map @@ (key :> value)]
    ELSE [err |-> duplicate_error(key), map |-> map]

\* check that never finds the key
check_never(key, map) == NoError

\* helper check(key, map): the error raised when map holds key
check(key, map) ==
    IF key \in DOMAIN map THEN duplicate_error(key) ELSE NoError

\* Example::assert_parsable(parser): the parse error, or NoError
assert_parsable(command, p) ==
    LET r == parser_parse(p, command) IN IF r.ok THEN NoError ELSE r.err

\* loop over the examples that ignores the outcome of assert_parsable
check_examples_unchecked(p, i, exs) ==
    [err |-> NoError, calls |-> [k \in 1..Len(exs) |-> <<i, exs[k]>>]]

\* the loop over description().examples of parser p at list index i: the
\* first error and the calls made to p's parse
RECURSIVE check_examples(_, _, _)
check_examples(p, i, exs) ==
    IF exs = <<>> THEN [err |-> NoError, calls |-> <<>>]
    ELSE LET e == assert_parsable(Head(exs), p) IN
         IF e = NoError
         THEN LET rest == check_examples(p, i, Tail(exs)) IN
              [err |-> rest.err, calls |-> <<<<i, Head(exs)>>>> \o rest.calls]
         ELSE [err |-> <<"unparsable example command '", Head(exs), "': ">> \o e,
               calls |-> <<<<i, Head(exs)>>>>]

\* registration of the shorthand that skips the check against the name map
register_shorthand_unchecked(p, i, bs, bn) ==
    IF p.shorthand = None THEN [err |-> NoError, map |-> bs]
    ELSE insert(p.shorthand[1], i, bs)

\* the registration of parser p's shorthand
register_shorthand(p, i, bs, bn) ==
    IF p.shorthand = None THEN [err |-> NoError, map |-> bs]
    ELSE LET shorthand == p.shorthand[1] IN
         IF check(shorthand, bn) # NoError
         THEN [err |-> check(shorthand, bn), map |-> bs]
         ELSE insert(shorthand, i, bs)

\* the name length rule
name_too_short(p) == StrLen(p.name) < 2

\* registration of the name that skips the check against the shorthand map
register_name_unchecked(p, i, bs, bn) == insert(p.name, i, bn)

\* the registration of parser p's name, bs holding p's own shorthand
register_name(p, i, bs, bn) ==
    IF check(p.name, bs) # NoError
    THEN [err |-> check(p.name, bs), map |-> bn]
    ELSE insert(p.name, i, bn)

\* an iteration that checks the name against the shorthand map as it was
\* before the definition's own shorthand was inserted
try_from_body_name_before_shorthand(p, i, bs, bn) ==
    LET ex == check_examples(p, i, p.examples) IN
    IF ex.err # NoError
    THEN [err |-> ex.err, by_shorthand |-> bs, by_name |-> bn, calls |-> ex.calls]
    ELSE LET sh == register_shorthand(p, i, bs, bn) IN
         IF sh.err # NoError
         THEN [err |-> sh.err, by_shorthand |-> bs, by_name |-> bn, calls |-> ex.calls]
         ELSE IF name_too_short(p)
         THEN [err |-> <<"invalid command name '", p.name,
                         "': must contain at least 2 characters">>,
               by_shorthand |-> sh.map, by_name |-> bn, calls |-> ex.calls]
         ELSE LET nm == register_name(p, i, bs, bn) IN
              [err |-> nm.err, by_shorthand |-> sh.map, by_name |-> nm.map,
               calls |-> ex.calls]

\* one iteration of the for loop of try_from, for parser p at list index i
try_from_body(p, i, bs, bn) ==
    LET ex == check_examples(p, i, p.examples) IN
    IF ex.err # NoError
    THEN [err |-> ex.err, by_shorthand |-> bs, by_name |-> bn, calls |-> ex.calls]
    ELSE LET sh == register_shorthand(p, i, bs, bn) IN
         IF sh.err # NoError
         THEN [err |-> sh.err, by_shorthand |-> bs, by_name |-> bn, calls |-> ex.calls]
         ELSE IF name_too_short(p)
         THEN [err |-> <<"invalid command name '", p.name,
                         "': must contain at least 2 characters">>,
               by_shorthand |-> sh.map, by_name |-> bn, calls |-> ex.calls]
         ELSE LET nm == register_name(p, i, sh.map, bn) IN
              [err |-> nm.err, by_shorthand |-> sh.map, by_name |-> nm.map,
               calls |-> ex.calls]

(***************************************************************************)
(* Commander::parse.                                                       *)
(***************************************************************************)
\* lookup that forgets the fall-back to the name map
lookup_shorthand_only(c, name) ==
    IF name \in DOMAIN c.by_shorthand THEN Some(c.by_shorthand[name]) ELSE None

\* the lookup of an identifier: shorthand map first, name map second
lookup(c, name) ==
    IF name \in DOMAIN c.by_shorthand THEN Some(c.by_shorthand[name])
    ELSE IF name \in DOMAIN c.by_name THEN Some(c.by_name[name])
    ELSE None

\* argument fragment that starts at the space instead of after it
command_frag_keeps_space(s, index) ==
    IF index = StrLen(s) THEN <<>> ELSE SliceFrom(s, index)

\* the argument fragment of s, index being the byte offset of its first space
\* or its length
command_frag(s, index) ==
    IF index = StrLen(s) THEN <<>> ELSE SliceFrom(s, index + 1)

\* Commander::parse without the test for the empty string
commander_parse_no_empty_check(c, s) ==
    LET index == IF find(s) = None THEN StrLen(s) ELSE find(s)[1]
        name == SliceTo(s, index)
        found == lookup(c, name)
    IN IF found = None
       THEN [result |-> Err(<<"no command parser for '", name, "'">>),
             calls |-> <<>>]
       ELSE [result |-> parser_parse(c.parsers[found[1] + 1], command_frag(s, index)),
             calls |-> <<<<found[1], command_frag(s, index)>>>>]

\* Commander::parse(s) on commander c: its result and the calls it makes to
\* the definitions' parse, each call as <<list index, argument>>
commander_parse(c, s) ==
    IF s = <<>>
    THEN [result |-> Err(<<"empty command string">>), calls |-> <<>>]
    ELSE LET index == IF find(s) = None THEN StrLen(s) ELSE find(s)[1]
             name == SliceTo(s, index)
             found == lookup(c, name)
         IN IF found = None
            THEN [result |-> Err(<<"no command parser for '", name, "'">>),
                  calls |-> <<>>]
            ELSE LET parser_idx == found[1]
                     frag == command_frag(s, index)
                 IN [result |-> parser_parse(c.parsers[parser_idx + 1], frag),
                     calls |-> <<<<parser_idx, frag>>>>]

(***************************************************************************)
(* Commander::parsers.                                                     *)
(***************************************************************************)
\* Ord for String: lexicographic order of the bytes, which for UTF-8 is the
\* lexicographic order of the code points
RECURSIVE StrLess(_, _)
StrLess(a, b) ==
    IF a = <<>> THEN b # <<>>
    ELSE IF b = <<>> THEN FALSE
    ELSE IF Head(a) # Head(b) THEN Head(a) < Head(b)
    ELSE StrLess(Tail(a), Tail(b))

\* the keys of a BTreeMap in iteration order
RECURSIVE btree_keys(_)
btree_keys(K) ==
    IF K = {} THEN <<>>
    ELSE LET m == CHOOSE x \in K : \A y \in K \ {x} : StrLess(x, y)
         IN <<m>> \o btree_keys(K \ {m})

\* BTreeMap::values(): the values in ascending order of their keys
btree_values(map) ==
    LET keys == btree_keys(DOMAIN map) IN [k \in 1..Len(keys) |-> map[keys[k]]]

\* parsers() that walks the list in registration order
commander_parsers_unsorted(c) == c.parsers

\* Commander::parsers(): by_name.values().map(|&idx| &self.parsers[idx])
commander_parsers(c) ==
    LET idxs == btree_values(c.by_name) IN
    [k \in 1..Len(idxs) |-> c.parsers[idxs[k] + 1]]

(***************************************************************************)
(* State.                                                                  *)
(***************************************************************************)
VARIABLES
    parsers,        \* the list of definitions handed to try_from
    index,          \* try_from: list index of the definition being processed
    by_shorthand,   \* try_from: the local shorthand map
    by_name,        \* try_from: the local name map
    pc,             \* "try_from" while constructing, then "Ok" or "Err"
    err,            \* the InvalidCommandParserSpec returned, or NoError
    commander,      \* the Commander returned, or NoCommander
    parsed,         \* the last Commander::parse: None or Some([input, result])
    calls,          \* calls to definitions' parse made by the operation in
                    \* progress or last completed, as <<list index, argument>>
    listed,         \* the last operation if it was Commander::parsers():
                    \* Some(the definitions it yielded), else None
    held,           \* the earlier calls of Commander::parse whose results the
                    \* caller still holds, oldest first: [input, result, calls]
    keep,           \* how many results of parse the caller holds on to
    lines,          \* Mock terminal: the lines the read_line delegate still holds
    invocations,    \* Mock terminal: the recorded invocations
    run_flag,       \* Looper::run_flag
    context,        \* the application context the Looper refers to
    last_command_outcome,   \* run(): the local of that name
    lpc,            \* position of run(): "idle" outside run(), "while",
                    \* "read_command", "apply", "match"
    command,        \* run(): the command read, None or Some(command)
    result,         \* run(): what command.apply returned
    run_result,     \* what the last run() returned
    runs,           \* number of calls of run() so far
    applied,        \* the returns of apply in the current run(), in order
    started_at,     \* number of recorded invocations when run() was called
    by_action,      \* positions of the invocations recorded inside an apply
    lint_name,      \* lint: the name() of the parser under validation
    description,    \* lint: the description() of that parser
    failed,         \* lint: None or Some(the vector validate returned)
    panicked,       \* lint: None or Some([exclusions, message]) of the last
                    \* lint::assert, message None when it returned
    reader,         \* read_from_str or read_from_str_default in progress or
                    \* last completed, "none" before the first
    rpc,            \* "idle" outside that call, "read_value" inside its loop
    read_result,    \* None, or Some(what that call returned)
    from_str_calls, \* the strings handed to FromStr::from_str by that call
    script,         \* Mock terminal called directly: the lines given to lines()
    last_call       \* the last call made on it and what it returned:
                    \* None or Some([op, text, result])

\* the state of the Commander and of its construction
cvars == <<parsers, index, by_shorthand, by_name, pc, err, commander>>

\* the observations of the operations on the Commander
ovars == <<parsed, calls, listed, held, keep>>

\* the state of the Looper, of its terminal and of run()
lvars == <<lines, invocations, run_flag, context, last_command_outcome, lpc,
           command, result, run_result, runs, applied, started_at, by_action>>

\* the parser given to the lint engine and what the engine returned
tvars == <<lint_name, description, failed, panicked>>

\* the state of a call of read_from_str or read_from_str_default
rvars == <<reader, rpc, read_result, from_str_calls>>

\* a Mock terminal called directly: what it was built with and what it returned
mvars == <<script, last_call>>

vars == <<cvars, ovars, lvars, tvars, rvars, mvars>>

\* RunFlag::default()
RunFlag_default == "Stopped"

\* apply results: Ok(Applied), Ok(Skipped), Err(Application(e)),
\* Err(AccessTerminal(e)); kind "None" while apply has not returned
NoResult == [kind |-> "None", err |-> <<>>]

\* no Looper exists: the state of the Looper part while the Commander is
\* constructed and queried on its own
NoLooper ==
    /\ lines = <<>>
    /\ invocations = <<>>
    /\ run_flag = RunFlag_default
    /\ context = 0
    /\ last_command_outcome = "Applied"
    /\ lpc = "idle"
    /\ command = None
    /\ result = NoResult
    /\ run_result = NoResult
    /\ runs = 0
    /\ applied = <<>>
    /\ started_at = 0
    /\ by_action = {}

\* nothing is being validated
NoLint ==
    /\ lint_name = <<>>
    /\ description = [purpose |-> <<>>, usage |-> <<>>, examples |-> <<>>]
    /\ failed = None
    /\ panicked = None

\* no value is being read
NoReader ==
    /\ reader = "none"
    /\ rpc = "idle"
    /\ read_result = None
    /\ from_str_calls = <<>>

\* no Mock terminal is called directly
NoMock ==
    /\ script = <<>>
    /\ last_call = None

Init ==
    /\ parsers \in ParserLists
    /\ index = 0
    /\ by_shorthand = EmptyMap
    /\ by_name = EmptyMap
    /\ pc = "try_from"
    /\ err = NoError
    /\ commander = NoCommander
    /\ parsed = None
    /\ calls = <<>>
    /\ listed = None
    /\ held = <<>>
    /\ keep = 0
    /\ NoLooper
    /\ NoLint
    /\ NoReader
    /\ NoMock

\* one iteration of the for loop of try_from; an error returns at once and
\* drops the partially built maps
TryFromIter ==
    /\ pc = "try_from"
    /\ index < Len(parsers)
    /\ LET b == try_from_body(parsers[index + 1], index, by_shorthand, by_name) IN
       /\ calls' = calls \o b.calls
       /\ IF b.err # NoError
          THEN /\ pc' = "Err"
               /\ err' = b.err
               /\ by_shorthand' = EmptyMap
               /\ by_name' = EmptyMap
               /\ index' = index
          ELSE /\ pc' = pc
               /\ err' = err
               /\ by_shorthand' = b.by_shorthand
               /\ by_name' = b.by_name
               /\ index' = index + 1
    /\ UNCHANGED <<parsers, commander, parsed, listed, held, keep>>
    /\ UNCHANGED <<lvars, tvars, rvars, mvars>>

\* the end of try_from: Ok(Self { parsers, by_shorthand, by_name })
TryFromOk ==
    /\ pc = "try_from"
    /\ index = Len(parsers)
    /\ commander' = [parsers |-> parsers, by_shorthand |-> by_shorthand,
                     by_name |-> by_name]
    /\ by_shorthand' = EmptyMap
    /\ by_name' = EmptyMap
    /\ pc' = "Ok"
    /\ UNCHANGED <<parsers, index, err, parsed, calls, listed, held, keep>>
    /\ UNCHANGED <<lvars, tvars, rvars, mvars>>

\* what the caller holds when the next operation on the Commander begins:
\* the result of the parse just before it is kept while there is room
held_next ==
    IF parsed # None /\ Len(held) < keep
    THEN Append(held, [input |-> parsed[1].input, result |-> parsed[1].result,
                       calls |-> calls])
    ELSE held

\* Commander::parse that answers the empty string with the action of the
\* last input, when that one resolved
Parse_repeats_last ==
    /\ pc = "Ok"
    /\ \E s \in ParseInputs :
         LET r == IF s = <<>> /\ parsed # None /\ parsed[1].result.ok
                  THEN [result |-> parsed[1].result, calls |-> calls]
                  ELSE commander_parse(commander, s) IN
         /\ parsed' = Some([input |-> s, result |-> r.result])
         /\ calls' = r.calls
    /\ listed' = None
    /\ held' = held_next
    /\ keep' = keep
    /\ UNCHANGED cvars
    /\ UNCHANGED <<lvars, tvars, rvars, mvars>>

\* Commander::parse(s) on the constructed Commander
Parse ==
    /\ pc = "Ok"
    /\ \E s \in ParseInputs :
         LET r == commander_parse(commander, s) IN
         /\ parsed' = Some([input |-> s, result |-> r.result])
         /\ calls' = r.calls
    /\ listed' = None
    /\ held' = held_next
    /\ keep' = keep
    /\ UNCHANGED cvars
    /\ UNCHANGED <<lvars, tvars, rvars, mvars>>

\* Commander::parsers() on the constructed Commander
ListParsers ==
    /\ pc = "Ok"
    /\ listed' = Some(commander_parsers(commander))
    /\ parsed' = None
    /\ calls' = <<>>
    /\ held' = held_next
    /\ keep' = keep
    /\ UNCHANGED cvars
    /\ UNCHANGED <<lvars, tvars, rvars, mvars>>

Next == TryFromIter \/ TryFromOk \/ Parse \/ ListParsers

Spec == Init /\ [][Next]_vars

\* construction from one definition, its shorthand drawn from the names:
\* "g", "e-acute", "gg", "g "
SelfNames == {<<103>>, <<233>>, <<103, 103>>, <<103, Space>>}

SelfParsers ==
    [name : SelfNames, shorthand : {None} \cup {Some(n) : n \in SelfNames},
     examples : ExampleLists]

\* try_from is called with a list of one definition
InitSelf ==
    /\ parsers \in {<<p>> : p \in SelfParsers}
    /\ index = 0
    /\ by_shorthand = EmptyMap
    /\ by_name = EmptyMap
    /\ pc = "try_from"
    /\ err = NoError
    /\ commander = NoCommander
    /\ parsed = None
    /\ calls = <<>>
    /\ listed = None
    /\ held = <<>>
    /\ keep = 0
    /\ NoLooper
    /\ NoLint
    /\ NoReader
    /\ NoMock

SpecSelf == InitSelf /\ [][Next]_vars

\* definitions of a caller that compares the results of parse: names "gg"
\* and "hh", shorthands none, "" and "g", no examples
HeldParsers ==
    [name : {<<103, 103>>, <<104, 104>>},
     shorthand : {None, Some(<<>>), Some(<<103>>)},
     examples : {<<>>}]

\* try_from is called with a list of these, and the caller then holds on to
\* the results of its first calls of parse
InitHeld ==
    /\ parsers \in UNION {[1..k -> HeldParsers] : k \in 0..MaxParsers}
    /\ index = 0
    /\ by_shorthand = EmptyMap
    /\ by_name = EmptyMap
    /\ pc = "try_from"
    /\ err = NoError
    /\ commander = NoCommander
    /\ parsed = None
    /\ calls = <<>>
    /\ listed = None
    /\ held = <<>>
    /\ keep = MaxHeld
    /\ NoLooper
    /\ NoLint
    /\ NoReader
    /\ NoMock

SpecHeld == InitHeld /\ [][Next]_vars

TypeOK ==
    /\ parsers \in ParserLists
    /\ index \in 0..Len(parsers)
    /\ pc \in {"try_from", "Ok", "Err"}
    /\ (pc = "Ok") <=> (commander # NoCommander)
    /\ (pc = "Err") <=> (err # NoError)

(***************************************************************************)
(* Terminal: the Mock terminal with a lines(...) read_line delegate and a  *)
(* print delegate that may fail, and Terminal::read_value.                 *)
(***************************************************************************)
\* the characters str::trim() removes: those with the White_Space property
Whitespace ==
    {9, 10, 11, 12, 13, Space, 133, 160, 5760} \cup (8192..8202)
        \cup {8232, 8233, 8239, 8287, 12288}

RECURSIVE trim_start(_)
trim_start(s) ==
    IF s # <<>> /\ Head(s) \in Whitespace THEN trim_start(Tail(s)) ELSE s

RECURSIVE trim_end(_)
trim_end(s) ==
    IF s # <<>> /\ s[Len(s)] \in Whitespace
    THEN trim_end(SubSeq(s, 1, Len(s) - 1)) ELSE s

\* str::trim()
trim(s) == trim_end(trim_start(s))

\* Invocation::Print(text, result) and Invocation::ReadLine(result)
Invocation_Print(text, r) == [op |-> "Print", text |-> text, ok |-> r.ok, val |-> <<>>, err |-> r.err]
Invocation_ReadLine(r) == [op |-> "ReadLine", text |-> <<>>, ok |-> r.ok, val |-> r.val, err |-> r.err]

\* what the print delegate of the Mock may return
DelegateResults == {Ok(<<>>), Err(<<"print failed">>)}

\* a reader that hands out the lines from the end of the script
lines_next_from_end(ls) ==
    IF ls = <<>> THEN [result |-> Err(<<"no more lines">>), lines |-> ls]
    ELSE [result |-> Ok(ls[Len(ls)]), lines |-> SubSeq(ls, 1, Len(ls) - 1)]

\* the closure of lines(...): the next line, or "no more lines"
lines_next(ls) ==
    IF ls = <<>> THEN [result |-> Err(<<"no more lines">>), lines |-> ls]
    ELSE [result |-> Ok(Head(ls)), lines |-> Tail(ls)]

\* Mock::print(s), the delegate returning r: the invocations afterwards
mock_print(inv, text, r) == Append(inv, Invocation_Print(text, r))

\* Terminal::print_line(s): print of s with '\n' pushed
print_line_text(text) == text \o <<"\n">>

\* the "Invalid input" line without the full stop
invalid_input_text_no_stop(e) ==
    print_line_text(<<"Invalid input: ">> \o e)

\* the line read_value prints for a parse error
invalid_input_text(e) ==
    print_line_text(<<"Invalid input: ">> \o e \o <<".">>)

\* read_value that hands the line to the parser without trimming it
read_value_iter_untrimmed(inv, ls, prompt_text, c, r1, r2) ==
    LET inv1 == mock_print(inv, prompt_text, r1) IN
    IF ~r1.ok
    THEN [outcome |-> "fail", err |-> r1.err, invocations |-> inv1, lines |-> ls,
          parsed |-> None, calls |-> <<>>, val |-> <<>>]
    ELSE LET rd == lines_next(ls)
             inv2 == Append(inv1, Invocation_ReadLine(rd.result))
         IN IF ~rd.result.ok
            THEN [outcome |-> "fail", err |-> rd.result.err, invocations |-> inv2,
                  lines |-> rd.lines, parsed |-> None, calls |-> <<>>, val |-> <<>>]
            ELSE LET p == commander_parse(c, rd.result.val)
                     pd == Some([input |-> rd.result.val, result |-> p.result])
                 IN IF p.result.ok
                    THEN [outcome |-> "value", err |-> <<>>, invocations |-> inv2,
                          lines |-> rd.lines, parsed |-> pd, calls |-> p.calls,
                          val |-> p.result.val]
                    ELSE LET inv3 == mock_print(inv2, invalid_input_text(p.result.err), r2)
                         IN [outcome |-> IF r2.ok THEN "retry" ELSE "fail",
                             err |-> r2.err, invocations |-> inv3, lines |-> rd.lines,
                             parsed |-> pd, calls |-> p.calls, val |-> <<>>]

\* read_value that prompts again when the line could not be read
read_value_iter_retries_read(inv, ls, prompt_text, c, r1, r2) ==
    LET inv1 == mock_print(inv, prompt_text, r1) IN
    IF ~r1.ok
    THEN [outcome |-> "fail", err |-> r1.err, invocations |-> inv1, lines |-> ls,
          parsed |-> None, calls |-> <<>>, val |-> <<>>]
    ELSE LET rd == lines_next(ls)
             inv2 == Append(inv1, Invocation_ReadLine(rd.result))
         IN IF ~rd.result.ok
            THEN [outcome |-> "retry", err |-> rd.result.err, invocations |-> inv2,
                  lines |-> rd.lines, parsed |-> None, calls |-> <<>>, val |-> <<>>]
            ELSE LET p == commander_parse(c, trim(rd.result.val))
                     pd == Some([input |-> trim(rd.result.val), result |-> p.result])
                 IN IF p.result.ok
                    THEN [outcome |-> "value", err |-> <<>>, invocations |-> inv2,
                          lines |-> rd.lines, parsed |-> pd, calls |-> p.calls,
                          val |-> p.result.val]
                    ELSE LET inv3 == mock_print(inv2, invalid_input_text(p.result.err), r2)
                         IN [outcome |-> IF r2.ok THEN "retry" ELSE "fail",
                             err |-> r2.err, invocations |-> inv3, lines |-> rd.lines,
                             parsed |-> pd, calls |-> p.calls, val |-> <<>>]

\* one iteration of the loop of Terminal::read_value(prompt, parser) with the
\* parser |str| commander.parse(str) of read_command, on a Mock terminal with
\* invocations inv and remaining lines ls; r1 and r2 are what the print
\* delegate returns for the prompt and for the "Invalid input" line.
\* outcome "value": the parser succeeded; "retry": the loop goes round;
\* "fail": an AccessTerminalError is returned
read_value_iter(inv, ls, prompt_text, c, r1, r2) ==
    LET inv1 == mock_print(inv, prompt_text, r1) IN
    IF ~r1.ok
    THEN [outcome |-> "fail", err |-> r1.err, invocations |-> inv1, lines |-> ls,
          parsed |-> None, calls |-> <<>>, val |-> <<>>]
    ELSE LET rd == lines_next(ls)
             inv2 == Append(inv1, Invocation_ReadLine(rd.result))
         IN IF ~rd.result.ok
            THEN [outcome |-> "fail", err |-> rd.result.err, invocations |-> inv2,
                  lines |-> rd.lines, parsed |-> None, calls |-> <<>>, val |-> <<>>]
            ELSE LET p == commander_parse(c, trim(rd.result.val))
                     pd == Some([input |-> trim(rd.result.val), result |-> p.result])
                 IN IF p.result.ok
                    THEN [outcome |-> "value", err |-> <<>>, invocations |-> inv2,
                          lines |-> rd.lines, parsed |-> pd, calls |-> p.calls,
                          val |-> p.result.val]
                    ELSE LET inv3 == mock_print(inv2, invalid_input_text(p.result.err), r2)
                         IN [outcome |-> IF r2.ok THEN "retry" ELSE "fail",
                             err |-> r2.err, invocations |-> inv3, lines |-> rd.lines,
                             parsed |-> pd, calls |-> p.calls, val |-> <<>>]

(***************************************************************************)
(* Looper.                                                                 *)
(***************************************************************************)
\* ApplyOutcome and ApplyCommandError values returned by Command::apply
ApplyOk(outcome) == [kind |-> outcome, err |-> <<>>]
Application(e) == [kind |-> "Application", err |-> e]
AccessTerminal(e) == [kind |-> "AccessTerminal", err |-> e]

\* Result<(), AccessTerminalError> returned by run()
RunOk == [kind |-> "Ok", err |-> <<>>]
RunErr(e) == [kind |-> "Err", err |-> e]

\* prompt() that shows the applied-prompt after a skipped command
prompt_skipped_as_applied(outcome) ==
    CASE outcome = "Applied" -> <<"+>> ">>
      [] outcome = "Skipped" -> <<"+>> ">>
      [] outcome = "Erred" -> <<"!>> ">>

\* LastCommandOutcome::prompt()
prompt(outcome) ==
    CASE outcome = "Applied" -> <<"+>> ">>
      [] outcome = "Skipped" -> <<"->> ">>
      [] outcome = "Erred" -> <<"!>> ">>

\* From<ApplyOutcome> for LastCommandOutcome
from_outcome(outcome) ==
    CASE outcome = "Applied" -> "Applied"
      [] outcome = "Skipped" -> "Skipped"

\* the line run() prints for an Application error
command_error_text(e) == print_line_text(<<"Command error: ">> \o e \o <<".">>)

\* quit::Parser: name "quit", shorthand "q", no examples
quit_Parser ==
    [name |-> <<113, 117, 105, 116>>, shorthand |-> Some(<<113>>), examples |-> <<>>]

\* a caller's definition without arguments: name "gg", shorthand "g"
user_Parser ==
    [name |-> <<103, 103>>, shorthand |-> Some(<<103>>), examples |-> <<>>]

\* the definitions of the Commander the Looper runs on
LoopParsers == <<user_Parser, quit_Parser>>

\* the for loop of try_from from list index i on
RECURSIVE try_from_loop(_, _, _, _)
try_from_loop(ps, i, bs, bn) ==
    IF i = Len(ps) THEN [err |-> NoError, by_shorthand |-> bs, by_name |-> bn]
    ELSE LET b == try_from_body(ps[i + 1], i, bs, bn) IN
         IF b.err # NoError
         THEN [err |-> b.err, by_shorthand |-> EmptyMap, by_name |-> EmptyMap]
         ELSE try_from_loop(ps, i + 1, b.by_shorthand, b.by_name)

\* Commander::new(parsers), for a list that try_from accepts
commander_new(ps) ==
    LET r == try_from_loop(ps, 0, EmptyMap, EmptyMap) IN
    [parsers |-> ps, by_shorthand |-> r.by_shorthand, by_name |-> r.by_name]

\* what the apply of a caller's command may do: what it does to the run flag
\* through run_flag() ("keep", "stop", or "stop_start": stop() and then
\* start()), how much it adds to the context, the call it then makes on the
\* terminal with `?` ("none", "print": print_line("the number is 1"), or
\* "read": read_line()) and the result it returns when that call succeeds
UserEffects ==
    [result : {ApplyOk("Applied"), ApplyOk("Skipped"),
               Application(<<"cooling pump exploded">>),
               AccessTerminal(<<"terminal meltdown">>)},
     flag : {"keep", "stop", "stop_start"},
     inc : {0, 1},
     terminal : {"none"}]
    \cup
    [result : {ApplyOk("Applied"), ApplyOk("Skipped"),
               Application(<<"cooling pump exploded">>)},
     flag : {"keep", "stop"},
     inc : {0},
     terminal : {"print", "read"}]
    \cup
    [result : {ApplyOk("Applied")},
     flag : {"keep"},
     inc : {1},
     terminal : {"print"}]

\* the call a caller's command makes on the terminal, r being what the print
\* delegate returns: the invocations and lines afterwards and the failure, if
\* the call failed
user_terminal(call, inv, ls, r) ==
    CASE call = "none" -> [invocations |-> inv, lines |-> ls, err |-> None]
      [] call = "print" ->
           [invocations |-> mock_print(inv, print_line_text(<<"the number is 1">>), r),
            lines |-> ls,
            err |-> IF r.ok THEN None ELSE Some(r.err)]
      [] call = "read" ->
           LET rd == lines_next(ls) IN
           [invocations |-> Append(inv, Invocation_ReadLine(rd.result)),
            lines |-> rd.lines,
            err |-> IF rd.result.ok THEN None ELSE Some(rd.result.err)]

\* a run flag that stays Stopped once stop() has been called on it
flag_after_sticky_stop(flag, effect) ==
    CASE effect = "keep" -> flag
      [] effect = "stop" -> "Stopped"
      [] effect = "stop_start" -> "Stopped"

\* the run flag after an effect on it
flag_after(flag, effect) ==
    CASE effect = "keep" -> flag
      [] effect = "stop" -> "Stopped"
      [] effect = "stop_start" -> "Running"

\* lines typed at the prompt: "q", "quit", "g", "g  h ", " g", "", "h", "q h"
LoopLines ==
    {<<113>>, <<113, 117, 105, 116>>, <<103>>, <<103, Space, Space, 104, Space>>,
     <<Space, 103>>, <<>>, <<104>>, <<113, Space, 104>>}

Scripts == UNION {[1..k -> LoopLines] : k \in 0..MaxLines}

\* the state after Commander::new(LoopParsers), Mock::default()
\* .on_read_line(lines(script)), TestContext::default() and Looper::new
InitLoop ==
    /\ parsers = LoopParsers
    /\ index = Len(LoopParsers)
    /\ by_shorthand = EmptyMap
    /\ by_name = EmptyMap
    /\ pc = "Ok"
    /\ err = NoError
    /\ commander = commander_new(LoopParsers)
    /\ parsed = None
    /\ calls = <<>>
    /\ listed = None
    /\ held = <<>>
    /\ keep = 0
    /\ lines \in Scripts
    /\ invocations = <<>>
    /\ run_flag = RunFlag_default
    /\ context = 0
    /\ last_command_outcome = "Applied"
    /\ lpc = "idle"
    /\ command = None
    /\ result = NoResult
    /\ run_result = NoResult
    /\ runs = 0
    /\ applied = <<>>
    /\ started_at = 0
    /\ by_action = {}
    /\ NoLint
    /\ NoReader
    /\ NoMock

\* a call of run() that starts with the last outcome of the call before
RunStart_keeps_outcome ==
    /\ lpc = "idle"
    /\ runs < MaxRuns
    /\ run_flag' = "Running"
    /\ lpc' = "while"
    /\ runs' = runs + 1
    /\ command' = None
    /\ result' = NoResult
    /\ run_result' = NoResult
    /\ applied' = <<>>
    /\ started_at' = Len(invocations)
    /\ by_action' = by_action
    /\ UNCHANGED <<lines, invocations, context, last_command_outcome>>
    /\ UNCHANGED <<cvars, ovars, tvars, rvars, mvars>>

\* a call of run() that resets the application context
RunStart_resets_context ==
    /\ lpc = "idle"
    /\ runs < MaxRuns
    /\ run_flag' = "Running"
    /\ last_command_outcome' = "Applied"
    /\ lpc' = "while"
    /\ runs' = runs + 1
    /\ command' = None
    /\ result' = NoResult
    /\ run_result' = NoResult
    /\ applied' = <<>>
    /\ started_at' = Len(invocations)
    /\ by_action' = by_action
    /\ context' = 0
    /\ UNCHANGED <<lines, invocations>>
    /\ UNCHANGED <<cvars, ovars, tvars, rvars, mvars>>

\* a call of run() that does not start the run flag
RunStart_keeps_flag ==
    /\ lpc = "idle"
    /\ runs < MaxRuns
    /\ last_command_outcome' = "Applied"
    /\ lpc' = "while"
    /\ runs' = runs + 1
    /\ command' = None
    /\ result' = NoResult
    /\ run_result' = NoResult
    /\ applied' = <<>>
    /\ started_at' = Len(invocations)
    /\ by_action' = by_action
    /\ UNCHANGED <<lines, invocations, context, run_flag>>
    /\ UNCHANGED <<cvars, ovars, tvars, rvars, mvars>>

\* run() is called: run_flag.start() and the initial last_command_outcome
RunStart ==
    /\ lpc = "idle"
    /\ runs < MaxRuns
    /\ run_flag' = "Running"
    /\ last_command_outcome' = "Applied"
    /\ lpc' = "while"
    /\ runs' = runs + 1
    /\ command' = None
    /\ result' = NoResult
    /\ run_result' = NoResult
    /\ applied' = <<>>
    /\ started_at' = Len(invocations)
    /\ by_action' = by_action
    /\ UNCHANGED <<lines, invocations, context>>
    /\ UNCHANGED <<cvars, ovars, tvars, rvars, mvars>>

\* a loop that goes round whatever the run flag says
LoopCheck_unconditional ==
    /\ lpc = "while"
    /\ lpc' = "read_command"
    /\ UNCHANGED <<lines, invocations, run_flag, context, last_command_outcome,
                   command, result, run_result, runs, applied, started_at, by_action>>
    /\ UNCHANGED <<cvars, ovars, tvars, rvars, mvars>>

\* a loop test that finds the flag Stopped and tests it again
LoopCheck_never_exits ==
    /\ lpc = "while"
    /\ lpc' = IF run_flag = "Running" THEN "read_command" ELSE "while"
    /\ UNCHANGED <<lines, invocations, run_flag, context, last_command_outcome,
                   command, result, run_result, runs, applied, started_at, by_action>>
    /\ UNCHANGED <<cvars, ovars, tvars, rvars, mvars>>

\* the test of the while loop: another iteration, or return Ok(())
LoopCheck ==
    /\ lpc = "while"
    /\ IF run_flag = "Running"
       THEN lpc' = "read_command" /\ run_result' = run_result
       ELSE lpc' = "idle" /\ run_result' = RunOk
    /\ UNCHANGED <<lines, invocations, run_flag, context, last_command_outcome,
                   command, result, runs, applied, started_at, by_action>>
    /\ UNCHANGED <<cvars, ovars, tvars, rvars, mvars>>

\* read_command(self, last_command_outcome.prompt())?: one iteration of the
\* loop of read_value
ReadCommand ==
    /\ lpc = "read_command"
    /\ \E r1 \in DelegateResults, r2 \in DelegateResults :
         LET rv == read_value_iter(invocations, lines, prompt(last_command_outcome),
                                   commander, r1, r2) IN
         /\ invocations' = rv.invocations
         /\ lines' = rv.lines
         /\ parsed' = IF rv.parsed = None THEN parsed ELSE rv.parsed
         /\ calls' = IF rv.parsed = None THEN calls ELSE rv.calls
         /\ CASE rv.outcome = "value" ->
                   lpc' = "apply" /\ command' = Some(rv.val) /\ run_result' = run_result
              [] rv.outcome = "retry" ->
                   lpc' = "read_command" /\ command' = command /\ run_result' = run_result
              [] rv.outcome = "fail" ->
                   lpc' = "idle" /\ command' = command /\ run_result' = RunErr(rv.err)
    /\ UNCHANGED <<run_flag, context, last_command_outcome, result, runs, applied,
                   started_at, by_action, listed, held, keep>>
    /\ UNCHANGED <<cvars, tvars, rvars, mvars>>

\* apply with a quit that stops the flag only after "Exiting." has printed
Apply_quit_prints_first ==
    /\ lpc = "apply"
    /\ IF command = Some(CommandOf(quit_Parser.name))
       THEN \E r \in DelegateResults :
              /\ run_flag' = IF r.ok THEN "Stopped" ELSE run_flag
              /\ invocations' = mock_print(invocations, print_line_text(<<"Exiting.">>), r)
              /\ lines' = lines
              /\ result' = IF r.ok THEN ApplyOk("Applied") ELSE AccessTerminal(r.err)
              /\ context' = context
              /\ applied' = Append(applied, [command |-> command[1], result |-> result',
                                             effect |-> "stop", flag |-> run_flag',
                                             at |-> Len(invocations')])
       ELSE \E e \in UserEffects, r \in DelegateResults :
              LET t == user_terminal(e.terminal, invocations, lines, r) IN
              /\ run_flag' = flag_after(run_flag, e.flag)
              /\ context' = context + e.inc
              /\ invocations' = t.invocations
              /\ lines' = t.lines
              /\ result' = IF t.err = None THEN e.result ELSE AccessTerminal(t.err[1])
              /\ applied' = Append(applied, [command |-> command[1], result |-> result',
                                             effect |-> e.flag, flag |-> run_flag',
                                             at |-> Len(invocations')])
    /\ by_action' = by_action \cup ((Len(invocations) + 1)..Len(invocations'))
    /\ lpc' = "match"
    /\ UNCHANGED <<last_command_outcome, command, run_result, runs, started_at>>
    /\ UNCHANGED <<cvars, ovars, tvars, rvars, mvars>>

\* command.apply(self): Quit::apply for the command of quit::Parser, any
\* effect of UserEffects for a caller's command, whose call on the terminal
\* is logged like the loop's own and may take the next line
Apply ==
    /\ lpc = "apply"
    /\ IF command = Some(CommandOf(quit_Parser.name))
       THEN \E r \in DelegateResults :
              /\ run_flag' = "Stopped"
              /\ invocations' = mock_print(invocations, print_line_text(<<"Exiting.">>), r)
              /\ lines' = lines
              /\ result' = IF r.ok THEN ApplyOk("Applied") ELSE AccessTerminal(r.err)
              /\ context' = context
              /\ applied' = Append(applied, [command |-> command[1], result |-> result',
                                             effect |-> "stop", flag |-> run_flag',
                                             at |-> Len(invocations')])
       ELSE \E e \in UserEffects, r \in DelegateResults :
              LET t == user_terminal(e.terminal, invocations, lines, r) IN
              /\ run_flag' = flag_after(run_flag, e.flag)
              /\ context' = context + e.inc
              /\ invocations' = t.invocations
              /\ lines' = t.lines
              /\ result' = IF t.err = None THEN e.result ELSE AccessTerminal(t.err[1])
              /\ applied' = Append(applied, [command |-> command[1], result |-> result',
                                             effect |-> e.flag, flag |-> run_flag',
                                             at |-> Len(invocations')])
    /\ by_action' = by_action \cup ((Len(invocations) + 1)..Len(invocations'))
    /\ lpc' = "match"
    /\ UNCHANGED <<last_command_outcome, command, run_result, runs, started_at>>
    /\ UNCHANGED <<cvars, ovars, tvars, rvars, mvars>>

\* the match that leaves last_command_outcome alone on an Application error
react_error_not_recorded(res, last, inv, r) ==
    CASE res.kind \in {"Applied", "Skipped"} ->
           [last |-> from_outcome(res.kind), invocations |-> inv, returned |-> None]
      [] res.kind = "Application" ->
           [last |-> last,
            invocations |-> mock_print(inv, command_error_text(res.err), r),
            returned |-> IF r.ok THEN None ELSE Some(RunErr(r.err))]
      [] res.kind = "AccessTerminal" ->
           [last |-> last, invocations |-> inv, returned |-> Some(RunErr(res.err))]

\* the match that reports an access failure like an Application error
react_access_as_application(res, last, inv, r) ==
    CASE res.kind \in {"Applied", "Skipped"} ->
           [last |-> from_outcome(res.kind), invocations |-> inv, returned |-> None]
      [] res.kind \in {"Application", "AccessTerminal"} ->
           [last |-> IF r.ok THEN "Erred" ELSE last,
            invocations |-> mock_print(inv, command_error_text(res.err), r),
            returned |-> IF r.ok THEN None ELSE Some(RunErr(r.err))]

\* the match that returns an Application error from run()
react_application_returned(res, last, inv, r) ==
    CASE res.kind \in {"Applied", "Skipped"} ->
           [last |-> from_outcome(res.kind), invocations |-> inv, returned |-> None]
      [] res.kind = "Application" ->
           [last |-> "Erred",
            invocations |-> mock_print(inv, command_error_text(res.err), r),
            returned |-> Some(RunErr(res.err))]
      [] res.kind = "AccessTerminal" ->
           [last |-> last, invocations |-> inv, returned |-> Some(RunErr(res.err))]

\* the match on the result res of apply, with last_command_outcome last and
\* invocations inv; r is what the print delegate returns for the "Command
\* error" line. returned: what run() returns here, None when it goes on
react(res, last, inv, r) ==
    CASE res.kind \in {"Applied", "Skipped"} ->
           [last |-> from_outcome(res.kind), invocations |-> inv, returned |-> None]
      [] res.kind = "Application" ->
           [last |-> IF r.ok THEN "Erred" ELSE last,
            invocations |-> mock_print(inv, command_error_text(res.err), r),
            returned |-> IF r.ok THEN None ELSE Some(RunErr(r.err))]
      [] res.kind = "AccessTerminal" ->
           [last |-> last, invocations |-> inv, returned |-> Some(RunErr(res.err))]

\* a loop that applies the same action again after the match
Match_reapplies ==
    /\ lpc = "match"
    /\ \E r \in DelegateResults :
         LET m == react(result, last_command_outcome, invocations, r) IN
         /\ last_command_outcome' = m.last
         /\ invocations' = m.invocations
         /\ lpc' = IF m.returned = None THEN "apply" ELSE "idle"
         /\ run_result' = IF m.returned = None THEN run_result ELSE m.returned[1]
    /\ command' = command
    /\ UNCHANGED <<lines, run_flag, context, result, runs, applied, started_at, by_action>>
    /\ UNCHANGED <<cvars, ovars, tvars, rvars, mvars>>

\* a match that stops the flag when run() returns a failure
Match_stops_on_failure ==
    /\ lpc = "match"
    /\ \E r \in DelegateResults :
         LET m == react(result, last_command_outcome, invocations, r) IN
         /\ last_command_outcome' = m.last
         /\ invocations' = m.invocations
         /\ lpc' = IF m.returned = None THEN "while" ELSE "idle"
         /\ run_result' = IF m.returned = None THEN run_result ELSE m.returned[1]
         /\ run_flag' = IF m.returned = None THEN run_flag ELSE "Stopped"
    /\ command' = None
    /\ UNCHANGED <<lines, context, result, runs, applied, started_at, by_action>>
    /\ UNCHANGED <<cvars, ovars, tvars, rvars, mvars>>

\* a match that starts the flag again after an Application error
Match_restarts_after_error ==
    /\ lpc = "match"
    /\ \E r \in DelegateResults :
         LET m == react(result, last_command_outcome, invocations, r) IN
         /\ last_command_outcome' = m.last
         /\ invocations' = m.invocations
         /\ lpc' = IF m.returned = None THEN "while" ELSE "idle"
         /\ run_result' = IF m.returned = None THEN run_result ELSE m.returned[1]
    /\ run_flag' = IF result.kind = "Application" THEN "Running" ELSE run_flag
    /\ command' = None
    /\ UNCHANGED <<lines, context, result, runs, applied, started_at, by_action>>
    /\ UNCHANGED <<cvars, ovars, tvars, rvars, mvars>>

\* the match on the result of apply, and the end of the iteration
Match ==
    /\ lpc = "match"
    /\ \E r \in DelegateResults :
         LET m == react(result, last_command_outcome, invocations, r) IN
         /\ last_command_outcome' = m.last
         /\ invocations' = m.invocations
         /\ lpc' = IF m.returned = None THEN "while" ELSE "idle"
         /\ run_result' = IF m.returned = None THEN run_result ELSE m.returned[1]
    /\ command' = None
    /\ UNCHANGED <<lines, run_flag, context, result, runs, applied, started_at, by_action>>
    /\ UNCHANGED <<cvars, ovars, tvars, rvars, mvars>>

NextLoop == RunStart \/ LoopCheck \/ ReadCommand \/ Apply \/ Match

SpecLoop == InitLoop /\ [][NextLoop]_vars

\* run() as a sequential program: a step of the loop that can be taken is
\* taken; calling run() is left to the caller
SpecLoopFair ==
    /\ SpecLoop
    /\ WF_vars(LoopCheck)
    /\ WF_vars(ReadCommand)
    /\ WF_vars(Apply)
    /\ WF_vars(Match)

TypeOKLoop ==
    /\ run_flag \in {"Running", "Stopped"}
    /\ last_command_outcome \in {"Applied", "Skipped", "Erred"}
    /\ lpc \in {"idle", "while", "read_command", "apply", "match"}
    /\ runs \in 0..MaxRuns
    /\ (lpc = "apply" \/ lpc = "match") <=> command # None
    /\ commander = commander_new(LoopParsers)

(***************************************************************************)
(* The lint engine: lint::validate and lint::assert.                       *)
(***************************************************************************)
\* the full stop
Period == 46

\* char::is_uppercase, for the characters below 256
is_uppercase(c) == c \in (65..90) \cup (192..214) \cup (216..222)

\* str::starts_with
starts_with(s, prefix) ==
    Len(prefix) <= Len(s) /\ SubSeq(s, 1, Len(prefix)) = prefix

\* the first character: chars().next().unwrap()
first_char(s) == s[1]

\* the last character: chars().rev().next().unwrap()
last_char(s) == s[Len(s)]

\* Lint::assert(self, condition, failed): the vector afterwards
Lint_assert(lint, condition, fs) ==
    IF ~condition THEN Append(fs, lint) ELSE fs

\* no_excess_whitespace(s, lint, failed)
no_excess_whitespace(s, lint, fs) == Lint_assert(lint, trim(s) = s, fs)

\* the period test made on the trimmed purpose
purpose_ends_with_period_trimmed(purpose) ==
    trim(purpose) # <<>> /\ last_char(trim(purpose)) = Period

\* the condition of PurposeDoesNotEndWithPeriod, for a purpose that is not empty
purpose_ends_with_period(purpose) ==
    last_char(purpose) = Period

\* the usage test made for equality with the name
usage_begins_with_name_exact(usage, command_name) ==
    usage = command_name

\* the negated condition of UsageBeginsWithCommandName
usage_begins_with_name(usage, command_name) ==
    starts_with(usage, command_name)

\* validate_example that takes a full stop for a capital
validate_example_period_as_uppercase(command_name, ex, fs) ==
    LET scenario == ex.scenario
        example_command == ex.command
        f1 == no_excess_whitespace(scenario, "ExampleScenarioHasExcessWhitespace", fs)
        f2 == Lint_assert("ExampleScenarioIsEmpty", scenario # <<>>, f1)
        f3 == IF scenario # <<>>
              THEN Lint_assert("ExampleScenarioBeginsWithUppercase",
                               first_char(scenario) # Period, f2)
              ELSE f2
        f4 == IF scenario # <<>>
              THEN Lint_assert("ExampleScenarioEndsWithPeriod",
                               last_char(scenario) # Period, f3)
              ELSE f3
        f5 == no_excess_whitespace(example_command, "ExampleCommandHasExcessWhitespace", f4)
        f6 == Lint_assert("ExampleCommandIsEmpty", example_command # <<>>, f5)
    IN IF example_command # <<>>
       THEN Lint_assert("ExampleCommandBeginsWithCommandName",
                        ~starts_with(example_command, command_name), f6)
       ELSE f6

\* validate_example(command_name, ex, failed): the vector afterwards
validate_example(command_name, ex, fs) ==
    LET scenario == ex.scenario
        example_command == ex.command
        f1 == no_excess_whitespace(scenario, "ExampleScenarioHasExcessWhitespace", fs)
        f2 == Lint_assert("ExampleScenarioIsEmpty", scenario # <<>>, f1)
        f3 == IF scenario # <<>>
              THEN Lint_assert("ExampleScenarioBeginsWithUppercase",
                               ~is_uppercase(first_char(scenario)), f2)
              ELSE f2
        f4 == IF scenario # <<>>
              THEN Lint_assert("ExampleScenarioEndsWithPeriod",
                               last_char(scenario) # Period, f3)
              ELSE f3
        f5 == no_excess_whitespace(example_command, "ExampleCommandHasExcessWhitespace", f4)
        f6 == Lint_assert("ExampleCommandIsEmpty", example_command # <<>>, f5)
    IN IF example_command # <<>>
       THEN Lint_assert("ExampleCommandBeginsWithCommandName",
                        ~starts_with(example_command, command_name), f6)
       ELSE f6

\* the for loop over desc.examples walking the list from its end
RECURSIVE validate_examples_reversed(_, _, _)
validate_examples_reversed(command_name, exs, fs) ==
    IF exs = <<>> THEN fs
    ELSE validate_examples_reversed(command_name, SubSeq(exs, 1, Len(exs) - 1),
                                    validate_example(command_name, exs[Len(exs)], fs))

\* the for loop over desc.examples
RECURSIVE validate_examples(_, _, _)
validate_examples(command_name, exs, fs) ==
    IF exs = <<>> THEN fs
    ELSE validate_examples(command_name, Tail(exs),
                           validate_example(command_name, Head(exs), fs))

\* validate_description(command_name, desc, failed): the vector afterwards
validate_description(command_name, desc, fs) ==
    LET purpose == desc.purpose
        usage == desc.usage
        f1 == no_excess_whitespace(purpose, "PurposeHasExcessWhitespace", fs)
        f2 == Lint_assert("PurposeIsEmpty", purpose # <<>>, f1)
        f3 == IF purpose # <<>>
              THEN Lint_assert("PurposeDoesNotBeginWithUppercase",
                               is_uppercase(first_char(purpose)), f2)
              ELSE f2
        f4 == IF purpose # <<>>
              THEN Lint_assert("PurposeDoesNotEndWithPeriod",
                               purpose_ends_with_period(purpose), f3)
              ELSE f3
        f5 == no_excess_whitespace(usage, "UsageHasExcessWhitespace", f4)
        f6 == IF usage # <<>>
              THEN Lint_assert("UsageBeginsWithCommandName",
                               ~usage_begins_with_name(usage, command_name), f5)
              ELSE f5
    IN validate_examples(command_name, desc.examples, f6)

\* validate(parser)
validate(command_name, desc) == validate_description(command_name, desc, <<>>)

\* the for loop of lint::assert over the failed lints that are left: the
\* message of the panic, or None
RECURSIVE assert_loop(_, _)
assert_loop(fs, exclusions) ==
    IF fs = <<>> THEN None
    ELSE IF Head(fs) \notin exclusions THEN Some(<<"failed lint: ", Head(fs)>>)
    ELSE assert_loop(Tail(fs), exclusions)

\* lint::assert that takes no notice of the exclusions
lint_assert_no_exclusions(command_name, desc, exclusions) ==
    assert_loop(validate(command_name, desc), {})

\* lint::assert(parser, exclusions): the message of the panic, or None
lint_assert(command_name, desc, exclusions) ==
    assert_loop(validate(command_name, desc), exclusions)

\* lint::assert_pedantic(parser)
assert_pedantic(command_name, desc) == lint_assert(command_name, desc, {})

\* the variants of Lint, in the order of the enum
Lints ==
    <<"PurposeHasExcessWhitespace", "PurposeIsEmpty",
      "PurposeDoesNotBeginWithUppercase", "PurposeDoesNotEndWithPeriod",
      "UsageHasExcessWhitespace", "UsageBeginsWithCommandName",
      "ExampleScenarioHasExcessWhitespace", "ExampleScenarioIsEmpty",
      "ExampleScenarioBeginsWithUppercase", "ExampleScenarioEndsWithPeriod",
      "ExampleCommandHasExcessWhitespace", "ExampleCommandIsEmpty",
      "ExampleCommandBeginsWithCommandName">>

LintSet == {Lints[i] : i \in 1..Len(Lints)}

\* command names given to the lint engine: "g", "Gg"
LintNames == {<<103>>, <<71, 103>>}

\* purposes: "", " ", "G.", "G. ", "g.", "G", " G."
Purposes ==
    {<<>>, <<Space>>, <<71, Period>>, <<71, Period, Space>>, <<103, Period>>,
     <<71>>, <<Space, 71, Period>>}

\* usages: "", "g", " g", "Gg ", "G"
Usages == {<<>>, <<103>>, <<Space, 103>>, <<71, 103, Space>>, <<71>>}

\* example scenarios: "", "g", "G", "g.", " g", ". "
Scenarios ==
    {<<>>, <<103>>, <<71>>, <<103, Period>>, <<Space, 103>>, <<Period, Space>>}

\* example commands: "", "g", ".", "g ", "Gg"
ExampleCommands == {<<>>, <<103>>, <<Period>>, <<103, Space>>, <<71, 103>>}

Examples == [scenario : Scenarios, command : ExampleCommands]

Descriptions ==
    [purpose : Purposes, usage : Usages,
     examples : UNION {[1..k -> Examples] : k \in 0..MaxExamples}]

\* exclusions given to lint::assert: none, every lint, each lint alone, and
\* the pair the tests of the repository use
ExclusionSets ==
    {{}, LintSet, {"PurposeHasExcessWhitespace", "PurposeDoesNotEndWithPeriod"}}
        \cup {{l} : l \in LintSet}

\* no Commander is under construction
NoCommanderBuilt ==
    /\ parsers = <<>>
    /\ index = 0
    /\ by_shorthand = EmptyMap
    /\ by_name = EmptyMap
    /\ pc = "none"
    /\ err = NoError
    /\ commander = NoCommander
    /\ parsed = None
    /\ calls = <<>>
    /\ listed = None
    /\ held = <<>>
    /\ keep = 0

\* a parser with some name and description, as the lint engine meets it
InitLint ==
    /\ lint_name \in LintNames
    /\ description \in Descriptions
    /\ failed = None
    /\ panicked = None
    /\ NoCommanderBuilt
    /\ NoLooper
    /\ NoReader
    /\ NoMock

\* lint::validate(parser), the one call made on this parser
Validate ==
    /\ failed = None /\ panicked = None
    /\ failed' = Some(validate(lint_name, description))
    /\ panicked' = None
    /\ UNCHANGED <<lint_name, description>>
    /\ UNCHANGED <<cvars, ovars, lvars, rvars, mvars>>

\* lint::assert(parser, exclusions), the one call made on this parser;
\* assert_pedantic when there are no exclusions
LintAssert ==
    /\ failed = None /\ panicked = None
    /\ \E exclusions \in ExclusionSets :
          panicked' = Some([exclusions |-> exclusions,
                            message |-> lint_assert(lint_name, description, exclusions)])
    /\ failed' = None
    /\ UNCHANGED <<lint_name, description>>
    /\ UNCHANGED <<cvars, ovars, lvars, rvars, mvars>>

NextLint == Validate \/ LintAssert

SpecLint == InitLint /\ [][NextLint]_vars

(***************************************************************************)
(* Terminal::read_from_str and Terminal::read_from_str_default, for the    *)
(* type char on a Mock terminal.                                           *)
(***************************************************************************)
\* <char as FromStr>::from_str: the one character of s
char_from_str(s) ==
    IF s = <<>> THEN Err(<<"cannot parse char from empty string">>)
    ELSE IF Len(s) > 1 THEN Err(<<"too many characters in string">>)
    ELSE Ok(s[1])

\* <char as Default>::default(), the character U+0000
char_default == 0

\* a parser that returns the default whenever from_str fails
reader_parser_default_on_error(op, str) ==
    IF op = "read_from_str_default" /\ ~char_from_str(str).ok
    THEN [result |-> Ok(char_default), calls |-> <<>>]
    ELSE [result |-> char_from_str(str), calls |-> <<str>>]

\* the parser that op hands to read_value: FromStr::from_str for
\* read_from_str, and for read_from_str_default the closure that returns the
\* default for the empty string. calls: the strings handed to from_str
reader_parser(op, str) ==
    IF op = "read_from_str_default" /\ str = <<>>
    THEN [result |-> Ok(char_default), calls |-> <<>>]
    ELSE [result |-> char_from_str(str), calls |-> <<str>>]

\* one iteration of the loop of Terminal::read_value(prompt, parser) with the
\* parser of op, as read_value_iter
read_value_with(op, inv, ls, prompt_text, r1, r2) ==
    LET inv1 == mock_print(inv, prompt_text, r1) IN
    IF ~r1.ok
    THEN [outcome |-> "fail", err |-> r1.err, invocations |-> inv1, lines |-> ls,
          calls |-> <<>>, val |-> <<>>]
    ELSE LET rd == lines_next(ls)
             inv2 == Append(inv1, Invocation_ReadLine(rd.result))
         IN IF ~rd.result.ok
            THEN [outcome |-> "fail", err |-> rd.result.err, invocations |-> inv2,
                  lines |-> rd.lines, calls |-> <<>>, val |-> <<>>]
            ELSE LET p == reader_parser(op, trim(rd.result.val))
                 IN IF p.result.ok
                    THEN [outcome |-> "value", err |-> <<>>, invocations |-> inv2,
                          lines |-> rd.lines, calls |-> p.calls, val |-> p.result.val]
                    ELSE LET inv3 == mock_print(inv2, invalid_input_text(p.result.err), r2)
                         IN [outcome |-> IF r2.ok THEN "retry" ELSE "fail",
                             err |-> r2.err, invocations |-> inv3, lines |-> rd.lines,
                             calls |-> p.calls, val |-> <<>>]

\* the prompt the caller passes
ReadPrompt == <<">>> ">>

\* lines typed: "", " ", "g", " g ", "gh"
ReadLines ==
    {<<>>, <<Space>>, <<103>>, <<Space, 103, Space>>, <<103, 104>>}

ReadScripts == UNION {[1..k -> ReadLines] : k \in 0..MaxLines}

\* Mock::default().on_read_line(lines(script)), before a value is read
InitRead ==
    /\ lines \in ReadScripts
    /\ invocations = <<>>
    /\ run_flag = RunFlag_default
    /\ context = 0
    /\ last_command_outcome = "Applied"
    /\ lpc = "idle"
    /\ command = None
    /\ result = NoResult
    /\ run_result = NoResult
    /\ runs = 0
    /\ applied = <<>>
    /\ started_at = 0
    /\ by_action = {}
    /\ NoCommanderBuilt
    /\ NoLint
    /\ NoReader
    /\ NoMock

\* read_from_str::<char>(prompt) or read_from_str_default::<char>(prompt) is
\* called
ReadCall ==
    /\ rpc = "idle"
    /\ reader = "none"
    /\ reader' \in {"read_from_str", "read_from_str_default"}
    /\ rpc' = "read_value"
    /\ UNCHANGED <<read_result, from_str_calls>>
    /\ UNCHANGED <<cvars, ovars, lvars, tvars, mvars>>

\* one iteration of the loop of read_value inside that call
ReadValue ==
    /\ rpc = "read_value"
    /\ \E r1 \in DelegateResults, r2 \in DelegateResults :
         LET rv == read_value_with(reader, invocations, lines, ReadPrompt, r1, r2) IN
         /\ invocations' = rv.invocations
         /\ lines' = rv.lines
         /\ from_str_calls' = from_str_calls \o rv.calls
         /\ CASE rv.outcome = "value" ->
                   rpc' = "idle" /\ read_result' = Some(Ok(rv.val))
              [] rv.outcome = "retry" ->
                   rpc' = "read_value" /\ read_result' = read_result
              [] rv.outcome = "fail" ->
                   rpc' = "idle" /\ read_result' = Some(Err(rv.err))
    /\ UNCHANGED reader
    /\ UNCHANGED <<run_flag, context, last_command_outcome, lpc, command, result,
                   run_result, runs, applied, started_at, by_action>>
    /\ UNCHANGED <<cvars, ovars, tvars, mvars>>

NextRead == ReadCall \/ ReadValue

SpecRead == InitRead /\ [][NextRead]_vars

(***************************************************************************)
(* Vocabulary of the properties, stated over the list handed to try_from.  *)
(***************************************************************************)
N == Len(parsers)

Terminated == pc \in {"Ok", "Err"}

HasSpace(s) == \E i \in 1..Len(s) : s[i] = Space

\* position of the first space of s (s has one)
FirstSpace(s) == CHOOSE i \in 1..Len(s) : s[i] = Space /\ \A k \in 1..(i - 1) : s[k] # Space

\* the substring before the first space, or all of s
Identifier(s) == IF HasSpace(s) THEN SubSeq(s, 1, FirstSpace(s) - 1) ELSE s

\* everything after the first space, or the empty string
Fragment(s) == IF HasSpace(s) THEN SubSeq(s, FirstSpace(s) + 1, Len(s)) ELSE <<>>

\* every example of definition p parses
ExamplesParse(p) == \A k \in 1..Len(p.examples) : parser_parse(p, p.examples[k]).ok

\* names and shorthands of the list do not overlap
NonOverlapping ==
    /\ \A i, j \in 1..N : i # j => parsers[i].name # parsers[j].name
    /\ \A i, j \in 1..N : (i # j /\ parsers[i].shorthand # None)
                            => parsers[i].shorthand # parsers[j].shorthand
    /\ \A i, j \in 1..N : parsers[i].shorthand # Some(parsers[j].name)

\* a list of valid definitions with names of at least 2 characters and
\* non-overlapping names and shorthands
ValidList ==
    /\ \A i \in 1..N : ExamplesParse(parsers[i]) /\ CharCount(parsers[i].name) >= 2
    /\ NonOverlapping

\* no name and no shorthand holds a space, and no shorthand is empty
Typeable ==
    \A i \in 1..N :
        /\ ~HasSpace(parsers[i].name)
        /\ parsers[i].shorthand # None =>
              (parsers[i].shorthand[1] # <<>> /\ ~HasSpace(parsers[i].shorthand[1]))

\* the last Commander::parse was given definition i's name or shorthand
ParsedIdentifierOf(i) ==
    /\ parsed # None
    /\ \/ parsed[1].input = parsers[i].name
       \/ Some(parsed[1].input) = parsers[i].shorthand

(***************************************************************************)
(* C1: in every constructed Commander no string is a key of both the       *)
(* shorthand map and the name map, and every key of either map is declared *)
(* by exactly one definition of the list, whatever the list and its order. *)
(***************************************************************************)
C1_DisjointKeys ==
    pc = "Ok" =>
        /\ DOMAIN commander.by_shorthand \cap DOMAIN commander.by_name = {}
        /\ \A k \in DOMAIN commander.by_name :
              Cardinality({i \in 1..N : parsers[i].name = k}) = 1
        /\ \A k \in DOMAIN commander.by_shorthand :
              Cardinality({i \in 1..N : parsers[i].shorthand = Some(k)}) = 1

C1_Witness ==
    /\ pc = "Ok"
    /\ N = 2
    /\ Cardinality(DOMAIN commander.by_name) = 2
    /\ Cardinality(DOMAIN commander.by_shorthand) = 2

(***************************************************************************)
(* C2 as stated: for every valid non-overlapping list with names of at     *)
(* least 2 characters construction succeeds and parse of a definition's    *)
(* name or shorthand calls that definition's parse.                        *)
(***************************************************************************)
C2_Original ==
    (Terminated /\ ValidList) =>
        /\ pc = "Ok"
        /\ \A i \in 1..N : ParsedIdentifierOf(i) => calls = <<<<i - 1, <<>>>>>>

(***************************************************************************)
(* C2 amended: the same, for lists whose names and shorthands hold no      *)
(* space and whose shorthands are not empty.                               *)
(***************************************************************************)
C2_ValidListResolvable ==
    (Terminated /\ ValidList /\ Typeable) =>
        /\ pc = "Ok"
        /\ \A i \in 1..N : ParsedIdentifierOf(i) => calls = <<<<i - 1, <<>>>>>>

C2_Witness ==
    /\ pc = "Ok"
    /\ N = 2
    /\ ValidList
    /\ Typeable
    /\ parsers[1].shorthand # None
    /\ ParsedIdentifierOf(2)
    /\ calls = <<<<1, <<>>>>>>

(***************************************************************************)
(* The four rules of construction, stated over the list: definition j      *)
(* violates a rule with respect to the definitions before it.              *)
(***************************************************************************)
RegisteredNames(j) == {parsers[i].name : i \in 1..(j - 1)}

RegisteredShorthands(j) ==
    {parsers[i].shorthand[1] : i \in {k \in 1..(j - 1) : parsers[k].shorthand # None}}

\* rule 1: every example parses
Rule1Violated(j) == ~ExamplesParse(parsers[j])

\* rule 2: the shorthand is no registered name and no registered shorthand
Rule2Violated(j) ==
    /\ parsers[j].shorthand # None
    /\ parsers[j].shorthand[1] \in RegisteredNames(j) \cup RegisteredShorthands(j)

\* rule 3: the name has at least 2 characters
Rule3Violated(j) == CharCount(parsers[j].name) < 2

\* rule 4: the name is no registered shorthand (the definition's own
\* included) and no registered name
Rule4Violated(j) ==
    parsers[j].name \in RegisteredShorthands(j + 1) \cup RegisteredNames(j)

RuleViolated(j, r) ==
    CASE r = 1 -> Rule1Violated(j)
      [] r = 2 -> Rule2Violated(j)
      [] r = 3 -> Rule3Violated(j)
      [] r = 4 -> Rule4Violated(j)

\* no rule is violated before rule r of definition j
NoEarlierViolation(j, r) ==
    /\ \A i \in 1..(j - 1), q \in 1..4 : ~RuleViolated(i, q)
    /\ \A q \in 1..(r - 1) : ~RuleViolated(j, q)

\* construction failed while processing definition j, with error e
FailedAt(j, e) == pc = "Err" /\ index = j - 1 /\ err = e

(***************************************************************************)
(* C3: two definitions declaring the same shorthand, or the same name,     *)
(* make construction fail with "duplicate command parser for '<key>'"      *)
(* when the second of them is processed, no earlier rule being violated.   *)
(***************************************************************************)
C3_DuplicateKeyRejected ==
    Terminated =>
        \A i, j \in 1..N : i < j =>
            /\ ( /\ parsers[i].shorthand # None
                 /\ parsers[i].shorthand = parsers[j].shorthand
                 /\ NoEarlierViolation(j, 2) )
               => FailedAt(j, <<"duplicate command parser for '",
                                parsers[j].shorthand[1], "'">>)
            /\ ( /\ parsers[i].name = parsers[j].name
                 /\ NoEarlierViolation(j, 4) )
               => FailedAt(j, <<"duplicate command parser for '",
                                parsers[j].name, "'">>)

C3_Witness ==
    /\ N = 2
    /\ parsers[1].shorthand = Some(<<103>>)
    /\ parsers[2].shorthand = Some(<<103>>)
    /\ parsers[1].name # parsers[2].name
    /\ NoEarlierViolation(2, 2)
    /\ FailedAt(2, <<"duplicate command parser for '", <<103>>, "'">>)

(***************************************************************************)
(* C4: a shorthand equal to another definition's name makes construction   *)
(* fail with "duplicate command parser for '<key>'", whether the           *)
(* shorthand's owner comes before or after the name's owner, no earlier    *)
(* rule being violated.                                                    *)
(***************************************************************************)
C4_ShorthandEqualsNameRejected ==
    Terminated =>
        \A i, j \in 1..N : i < j =>
            /\ ( /\ parsers[i].shorthand = Some(parsers[j].name)
                 /\ NoEarlierViolation(j, 4) )
               => FailedAt(j, <<"duplicate command parser for '",
                                parsers[j].name, "'">>)
            /\ ( /\ parsers[j].shorthand = Some(parsers[i].name)
                 /\ NoEarlierViolation(j, 2) )
               => FailedAt(j, <<"duplicate command parser for '",
                                parsers[i].name, "'">>)

C4_Witness ==
    /\ N = 2
    /\ parsers[1].shorthand = Some(parsers[2].name)
    /\ parsers[2].shorthand # Some(parsers[1].name)
    /\ NoEarlierViolation(2, 4)
    /\ FailedAt(2, <<"duplicate command parser for '", parsers[2].name, "'">>)

(***************************************************************************)
(* C5: a definition whose name has fewer than 2 characters, its examples   *)
(* and shorthand having passed, makes construction fail with "invalid      *)
(* command name '<name>': must contain at least 2 characters", and this    *)
(* error is never raised for a name of 2 or more characters.               *)
(***************************************************************************)
C5_ShortNameRejected ==
    Terminated =>
        /\ \A j \in 1..N :
              (NoEarlierViolation(j, 3) /\ CharCount(parsers[j].name) < 2)
              => FailedAt(j, <<"invalid command name '", parsers[j].name,
                               "': must contain at least 2 characters">>)
        /\ (pc = "Err" /\ err[1] = "invalid command name '")
              => CharCount(parsers[index + 1].name) < 2

(***************************************************************************)
(* C6: for each definition the examples are parsed, in order, by the       *)
(* definition's own parse before its shorthand and name are examined; the  *)
(* first example that fails aborts construction with "unparsable example   *)
(* command '<cmd>': <parse error>", the parse error being the parser's.    *)
(***************************************************************************)
\* the first example of definition p that does not parse
FirstBadExample(p) ==
    CHOOSE k \in 1..Len(p.examples) :
        /\ ~parser_parse(p, p.examples[k]).ok
        /\ \A m \in 1..(k - 1) : parser_parse(p, p.examples[m]).ok

\* the arguments of the calls made to the parse of definition j
CallsOf(j) ==
    LET IsJ(c) == c[1] = j - 1
        cs == SelectSeq(calls, IsJ)
    IN [k \in 1..Len(cs) |-> cs[k][2]]

C6_ExamplesFirst ==
    (Terminated /\ parsed = None) =>
        \A j \in 1..N : NoEarlierViolation(j, 1) =>
            IF ExamplesParse(parsers[j])
            THEN CallsOf(j) = parsers[j].examples
            ELSE LET k == FirstBadExample(parsers[j])
                     cmd == parsers[j].examples[k]
                 IN /\ FailedAt(j, <<"unparsable example command '", cmd, "': ">>
                                   \o parser_parse(parsers[j], cmd).err)
                    /\ CallsOf(j) = SubSeq(parsers[j].examples, 1, k)

C6_Witness ==
    /\ N = 2
    /\ NoEarlierViolation(2, 1)
    /\ parsers[1].examples = <<<<>>, <<>>>> \/ parsers[1].examples = <<>>
    /\ parsers[2].examples = <<<<103>>, <<Space>>>>
    /\ Rule2Violated(2)
    /\ FailedAt(2, <<"unparsable example command '", <<103>>, "': ",
                     "invalid arguments to '", parsers[2].name, "': '", <<103>>, "'">>)
    /\ calls = <<<<1, <<103>>>>>>

(***************************************************************************)
(* C7: when construction fails, the error reported is that of the first    *)
(* violated rule, scanning the definitions in list order and the rules of  *)
(* one definition in the order 1 (examples), 2 (shorthand), 3 (name has at *)
(* least 2 characters), 4 (name).                                          *)
(***************************************************************************)
AnyViolation == \E j \in 1..N, r \in 1..4 : RuleViolated(j, r)

\* the first definition that violates a rule
FirstViolator ==
    CHOOSE j \in 1..N :
        /\ \E r \in 1..4 : RuleViolated(j, r)
        /\ \A i \in 1..(j - 1), q \in 1..4 : ~RuleViolated(i, q)

\* the first rule that definition j violates
FirstRule(j) ==
    CHOOSE r \in 1..4 : RuleViolated(j, r) /\ \A q \in 1..(r - 1) : ~RuleViolated(j, q)

\* the error of rule r of definition j
ExpectedError(j, r) ==
    CASE r = 1 -> LET cmd == parsers[j].examples[FirstBadExample(parsers[j])] IN
                  <<"unparsable example command '", cmd, "': ">>
                      \o parser_parse(parsers[j], cmd).err
      [] r = 2 -> <<"duplicate command parser for '", parsers[j].shorthand[1], "'">>
      [] r = 3 -> <<"invalid command name '", parsers[j].name,
                    "': must contain at least 2 characters">>
      [] r = 4 -> <<"duplicate command parser for '", parsers[j].name, "'">>

C7_FirstViolatedRuleReported ==
    pc = "Err" =>
        /\ AnyViolation
        /\ FailedAt(FirstViolator, ExpectedError(FirstViolator, FirstRule(FirstViolator)))

(***************************************************************************)
(* C8: construction is all-or-nothing: an error comes with no Commander;   *)
(* a Commander owns the whole list, its name map has exactly one entry per *)
(* definition and its shorthand map exactly one entry per declared         *)
(* shorthand, each entry holding the list index of the declaring           *)
(* definition.                                                             *)
(***************************************************************************)
Declaring == {i \in 1..N : parsers[i].shorthand # None}

C8_AllOrNothing ==
    /\ pc = "try_from" => (commander = NoCommander /\ err = NoError)
    /\ pc = "Err" => (commander = NoCommander /\ err # NoError)
    /\ pc = "Ok" =>
          /\ err = NoError
          /\ commander.parsers = parsers
          /\ DOMAIN commander.by_name = {parsers[i].name : i \in 1..N}
          /\ Cardinality(DOMAIN commander.by_name) = N
          /\ \A i \in 1..N : commander.by_name[parsers[i].name] = i - 1
          /\ DOMAIN commander.by_shorthand = {parsers[i].shorthand[1] : i \in Declaring}
          /\ Cardinality(DOMAIN commander.by_shorthand) = Cardinality(Declaring)
          /\ \A i \in Declaring : commander.by_shorthand[parsers[i].shorthand[1]] = i - 1

C8_Witness ==
    /\ pc = "Ok"
    /\ N = 2
    /\ Declaring = {2}
    /\ commander.by_name[parsers[2].name] = 1
    /\ commander.by_shorthand[parsers[2].shorthand[1]] = 1

(***************************************************************************)
(* C9 as stated: on every constructed Commander parse("") fails with       *)
(* "empty command string", parse(" ") fails with "no command parser for    *)
(* ''", and parse(s) with an identifier that is neither a shorthand nor a  *)
(* name fails with "no command parser for '<identifier>'" without calling  *)
(* any definition's parse.                                                 *)
(***************************************************************************)
\* some definition declares id as its name or as its shorthand
IsDeclared(id) ==
    \E i \in 1..N : parsers[i].name = id \/ parsers[i].shorthand = Some(id)

\* the last parse failed with "no command parser for '<id>'", calling nothing
NoParserFor(id) ==
    /\ ~parsed[1].result.ok
    /\ parsed[1].result.err = <<"no command parser for '", id, "'">>
    /\ calls = <<>>

C9_Original ==
    (pc = "Ok" /\ parsed # None) =>
        /\ parsed[1].input = <<>> =>
              /\ ~parsed[1].result.ok
              /\ parsed[1].result.err = <<"empty command string">>
              /\ calls = <<>>
        /\ parsed[1].input = <<Space>> => NoParserFor(<<>>)
        /\ (parsed[1].input # <<>> /\ ~IsDeclared(Identifier(parsed[1].input)))
              => NoParserFor(Identifier(parsed[1].input))

(***************************************************************************)
(* C9 amended: the same, parse(" ") failing with "no command parser for    *)
(* ''" unless the empty string is a registered shorthand.                  *)
(***************************************************************************)
C9_ParseRejections ==
    (pc = "Ok" /\ parsed # None) =>
        /\ parsed[1].input = <<>> =>
              /\ ~parsed[1].result.ok
              /\ parsed[1].result.err = <<"empty command string">>
              /\ calls = <<>>
        /\ (parsed[1].input = <<Space>> /\ ~IsDeclared(<<>>)) => NoParserFor(<<>>)
        /\ (parsed[1].input # <<>> /\ ~IsDeclared(Identifier(parsed[1].input)))
              => NoParserFor(Identifier(parsed[1].input))

C9_Witness ==
    /\ pc = "Ok"
    /\ N = 2
    /\ parsed # None
    /\ parsed[1].input = <<Space>>
    /\ Declaring # {}
    /\ NoParserFor(<<>>)

(***************************************************************************)
(* C10: parse(s) splits s at its first space only; the identifier is the   *)
(* text before it and the fragment everything after it, untrimmed (empty   *)
(* when s has no space).  The fragment is handed to the parse of exactly   *)
(* one definition, the resolved one, whose result parse returns unchanged. *)
(***************************************************************************)
C10_SplitAtFirstSpace ==
    (pc = "Ok" /\ parsed # None /\ parsed[1].input # <<>>) =>
        LET s == parsed[1].input
            id == Identifier(s)
            frag == Fragment(s)
        IN IF IsDeclared(id)
           THEN \E i \in 1..N :
                   /\ parsers[i].name = id \/ parsers[i].shorthand = Some(id)
                   /\ calls = <<<<i - 1, frag>>>>
                   /\ parsed[1].result = parser_parse(parsers[i], frag)
           ELSE calls = <<>>

C10_Witness ==
    /\ pc = "Ok"
    /\ N = 2
    /\ parsers[2].shorthand = Some(<<103>>)
    /\ parsed # None
    /\ parsed[1].input = <<103, Space, Space>>
    /\ calls = <<<<1, <<Space>>>>>>
    /\ ~parsed[1].result.ok
    /\ parsed[1].result.err =
          <<"invalid arguments to '", parsers[2].name, "': '", <<Space>>, "'">>

(***************************************************************************)
(* C12: Commander::parse is idempotent and read-only. Whenever a call has  *)
(* the same input as an earlier call on the same Commander, whatever was   *)
(* called in between, it yields the same result (the same error text, or   *)
(* an action of the same kind) from the same call to the same definition's *)
(* parse with the same fragment; and after construction the definition     *)
(* list and both maps stay what the constructor built, no operation        *)
(* changing them.                                                          *)
(***************************************************************************)
\* the calls of parse the caller can compare: those held and the last one
ParseCalls ==
    [i \in 1..(Len(held) + Len(parsed)) |->
        IF i <= Len(held) THEN held[i]
        ELSE [input |-> parsed[1].input, result |-> parsed[1].result, calls |-> calls]]

C13_ParsersSortedByName ==
    (pc = "Ok" /\ listed # None) =>
        /\ Len(listed[1]) = N
        /\ \A i \in 1..N :
              Cardinality({k \in 1..Len(listed[1]) : listed[1][k] = parsers[i]}) = 1
        /\ \A k \in 1..(Len(listed[1]) - 1) :
              StrLess(listed[1][k].name, listed[1][k + 1].name)

C13_Witness ==
    /\ pc = "Ok"
    /\ N = 2
    /\ StrLess(parsers[2].name, parsers[1].name)
    /\ listed = Some(<<parsers[2], parsers[1]>>)

(***************************************************************************)
(* Vocabulary of the properties of the loop.                               *)
(***************************************************************************)
\* positions in the log of the lines the loop read successfully
ReadIdx ==
    {i \in 1..Len(invocations) :
        invocations[i].op = "ReadLine" /\ invocations[i].ok /\ i \notin by_action}

\* the line typed last, as the terminal returned it
LastLineRead == invocations[CHOOSE i \in ReadIdx : \A k \in ReadIdx : k <= i].val

\* the definition that was handed the argument text by the last resolution
MatchedParser == parsers[calls[1][1] + 1]

\* C11 as stated: the argument text handed to the matched definition's parse
\* is everything after the first space of the typed line, with its leading
\* and trailing whitespace intact
C11_Original ==
    (calls # <<>> /\ ReadIdx # {}) => calls[1][2] = Fragment(LastLineRead)

\* C11, amended: read_value trims the typed line before it is resolved, so the
\* argument text handed to the matched definition's parse is everything after
\* the first space of the trimmed line: whitespace at the start of and inside
\* the argument text reaches the parser intact, whitespace at the end of the
\* line does not, and whitespace at the start of the line is dropped before
\* the identifier is taken
C11_ArgumentOfTrimmedLine ==
    (calls # <<>> /\ ReadIdx # {}) =>
        LET s == trim(LastLineRead) IN
        /\ parsed = Some([input |-> s, result |-> parser_parse(MatchedParser, Fragment(s))])
        /\ calls = <<<<calls[1][1], Fragment(s)>>>>
        /\ \/ MatchedParser.name = Identifier(s)
           \/ MatchedParser.shorthand = Some(Identifier(s))

C11_Witness ==
    /\ ReadIdx # {}
    /\ LastLineRead = <<103, Space, Space, 104, Space>>
    /\ calls = <<<<0, <<Space, 104>>>>>>
    /\ lpc = "read_command"


\* the outcome of the action applied last in this call of run(), "None" when
\* no action has been applied yet
LastApplied == IF applied = <<>> THEN "None" ELSE applied[Len(applied)].result.kind

\* the invocations logged by this call of run()
RunLog == SubSeq(invocations, started_at + 1, Len(invocations))

\* C14: every prompt printed by run() is the applied-prompt "+>> " when no
\* action has been applied yet in this call of run() or the last one returned
\* Applied, the skipped-prompt "->> " when it returned Skipped and the
\* error-prompt "!>> " when it returned an Application error; the three
\* literals are pairwise distinct
C14_PromptByLastOutcome ==
    [][ (lpc = "read_command" /\ invocations' # invocations) =>
           LET printed == invocations'[Len(invocations) + 1] IN
           /\ printed.op = "Print"
           /\ LastApplied \in {"None", "Applied"} => printed.text = <<"+>> ">>
           /\ LastApplied = "Skipped" => printed.text = <<"->> ">>
           /\ LastApplied = "Application" => printed.text = <<"!>> ">>
           /\ LastApplied # "AccessTerminal"
           /\ prompt("Applied") # prompt("Skipped")
           /\ prompt("Applied") # prompt("Erred")
           /\ prompt("Skipped") # prompt("Erred") ]_vars

C14_Witness ==
    /\ runs = 1
    /\ Len(applied) = 2
    /\ applied[1].result.kind = "Skipped"
    /\ applied[2].result.kind = "Application"
    /\ \E i, j \in 1..Len(invocations) :
          /\ i < j
          /\ invocations[1].text = <<"+>> ">>
          /\ invocations[i].text = <<"->> ">>
          /\ invocations[j].text = <<"!>> ">>


\* positions in the log of the lines read that failed to resolve
FailedIdx == {k \in ReadIdx : ~commander_parse(commander, trim(invocations[k].val)).result.ok}

\* the log around the line read at position k, which failed to resolve: the
\* prompt before it, the "Invalid input: <err>." line after it, no action
\* applied since, and the same prompt printed again (being the next thing the
\* loop does, when the log ends here)
FailureReported(k) ==
    LET e == commander_parse(commander, trim(invocations[k].val)).result.err IN
    /\ k >= 2 /\ k + 1 <= Len(invocations)
    /\ invocations[k - 1].op = "Print"
    /\ invocations[k + 1].op = "Print"
    /\ invocations[k + 1].text = <<"Invalid input: ">> \o e \o <<".", "\n">>
    /\ \A j \in 1..Len(applied) : applied[j].at \notin {k, k + 1}

Reprompted(k) ==
    IF k + 1 < Len(invocations)
    THEN /\ invocations[k + 2].op = "Print"
         /\ invocations[k + 2].text = invocations[k - 1].text
    ELSE /\ lpc = "read_command"
         /\ prompt(last_command_outcome) = invocations[k - 1].text

\* a step of the loop that reads a line which fails to resolve
FailedRead == lpc = "read_command" /\ Len(invocations') = Len(invocations) + 3

\* such a step applies no action and leaves the last outcome, the Run State
\* and the context as they were
NothingApplied ==
    /\ applied' = applied
    /\ last_command_outcome' = last_command_outcome
    /\ run_flag' = run_flag
    /\ context' = context
    /\ command' = None

\* C15 as stated: when a line read by the loop fails to resolve, the loop
\* prints "Invalid input: <err>." as one line, applies no action, leaves the
\* last outcome, the Run State and the context unchanged and prints the same
\* prompt again, for any number of consecutive failures
C15_Original ==
    /\ [](\A k \in FailedIdx : FailureReported(k) /\ Reprompted(k))
    /\ [][FailedRead => NothingApplied]_vars

\* C15, amended: the same, the prompt being printed again provided the print
\* of the "Invalid input" line succeeded; when that print fails, run() returns
\* the access failure and that call of run() logs nothing more
C15_ParseFailureReprompts ==
    /\ [](\A k \in FailedIdx :
             /\ FailureReported(k)
             /\ IF invocations[k + 1].ok THEN Reprompted(k)
                ELSE k + 1 > started_at =>
                        /\ k + 1 = Len(invocations)
                        /\ lpc = "idle"
                        /\ run_result = RunErr(invocations[k + 1].err))
    /\ [][FailedRead => NothingApplied]_vars

C15_Witness ==
    /\ lpc = "read_command"
    /\ Len(invocations) = 6
    /\ FailedIdx = {2, 5}
    /\ invocations[2].val = <<104>>
    /\ invocations[3].text = <<"Invalid input: ", "no command parser for '", <<104>>, "'", ".", "\n">>
    /\ invocations[3].ok
    /\ invocations[4].text = <<"+>> ">>
    /\ invocations[5].val = <<>>
    /\ invocations[6].text = <<"Invalid input: ", "empty command string", ".", "\n">>
    /\ invocations[6].ok
    /\ applied = <<>>


\* the actions applied in this call of run() whose result the loop has matched
Reacted == {j \in 1..Len(applied) : j < Len(applied) \/ lpc # "match"}

\* those of them whose apply returned an Application error
AppErrIdx == {j \in Reacted : applied[j].result.kind = "Application"}

\* the "Command error: <err>." line is the next thing logged after apply j
CommandErrorPrinted(j) ==
    LET a == applied[j].at IN
    /\ a + 1 <= Len(invocations)
    /\ invocations[a + 1].op = "Print"
    /\ invocations[a + 1].text = <<"Command error: ">> \o applied[j].result.err \o <<".", "\n">>

\* after the "Command error" line of apply j the loop goes on: the next thing
\* printed is the error-prompt, and a line read then that resolves is applied
LoopContinues(j) ==
    LET a == applied[j].at IN
    IF a + 1 < Len(invocations)
    THEN /\ invocations[a + 2].op = "Print"
         /\ invocations[a + 2].text = <<"!>> ">>
         /\ (/\ a + 3 <= Len(invocations)
             /\ invocations[a + 3].ok
             /\ commander_parse(commander, trim(invocations[a + 3].val)).result.ok)
            => (Len(applied) > j \/ lpc = "apply")
    ELSE /\ lpc \in {"while", "read_command"}
         /\ run_flag = "Running"
         /\ last_command_outcome = "Erred"
         /\ run_result = NoResult

\* C16 as stated: when an action's apply returns an Application error, the
\* loop prints "Command error: <err>." as one line, sets the last outcome to
\* the error variant so that the next prompt printed is the error-prompt and
\* continues looping: run() does not return because of it and the next line
\* is read and executed normally
C16_Original ==
    \A j \in AppErrIdx : CommandErrorPrinted(j) /\ LoopContinues(j)

\* C16, amended: the loop prints the "Command error" line; provided that
\* print succeeds and the action left the Run State Running, the rest is as
\* stated; when the print fails, run() returns that access failure, and when
\* the action left the Run State Stopped, run() returns Ok without another
\* prompt
C16_ApplicationErrorNotFatal ==
    \A j \in AppErrIdx :
        LET a == applied[j].at IN
        /\ CommandErrorPrinted(j)
        /\ CASE ~invocations[a + 1].ok ->
                  /\ a + 1 = Len(invocations)
                  /\ lpc = "idle"
                  /\ run_result = RunErr(invocations[a + 1].err)
             [] invocations[a + 1].ok /\ applied[j].flag = "Stopped" ->
                  /\ a + 1 = Len(invocations)
                  /\ last_command_outcome = "Erred"
                  /\ lpc = "while" \/ (lpc = "idle" /\ run_result = RunOk)
             [] invocations[a + 1].ok /\ applied[j].flag = "Running" ->
                  LoopContinues(j)

C16_Witness ==
    /\ lpc = "idle"
    /\ run_result = RunOk
    /\ Len(applied) = 2
    /\ applied[1].result = Application(<<"cooling pump exploded">>)
    /\ applied[2].command = CommandOf(quit_Parser.name)
    /\ Len(invocations) = 6
    /\ invocations[3].text = <<"Command error: ", "cooling pump exploded", ".", "\n">>
    /\ invocations[4].text = <<"!>> ">>
    /\ invocations[5].val = <<113, 117, 105, 116>>
    /\ invocations[6].text = <<"Exiting.", "\n">>


\* those whose apply returned an access failure
AccessErrIdx == {j \in 1..Len(applied) : applied[j].result.kind = "AccessTerminal"}

\* C17: when an action's apply returns an access failure, run() returns
\* exactly that failure: after the apply has returned, this call of run()
\* prints nothing, reads nothing and applies no further action, whatever
\* input remains
C17_AccessFailureFatal ==
    \A j \in AccessErrIdx :
        /\ j = Len(applied)
        /\ applied[j].at = Len(invocations)
        /\ \/ lpc = "match" /\ result = applied[j].result
           \/ lpc = "idle" /\ run_result = RunErr(applied[j].result.err)

C17_Witness ==
    /\ lpc = "idle"
    /\ Len(lines) = 1
    /\ Len(applied) = 1
    /\ applied[1].result = AccessTerminal(<<"terminal meltdown">>)
    /\ run_result = RunErr(<<"terminal meltdown">>)
    /\ Len(invocations) = 2


\* the actions that returned Applied or Skipped having left the flag Stopped
StoppedIdx ==
    {j \in 1..Len(applied) :
        applied[j].result.kind \in {"Applied", "Skipped"} /\ applied[j].flag = "Stopped"}

\* C18: an action that sets the Run State to Stopped still runs to completion
\* (quit prints "Exiting." and returns Applied), and when it has returned
\* Applied or Skipped with the flag Stopped, run() returns Ok without printing
\* another prompt, reading another line or applying another action
C18_StopAtIterationBoundary ==
    \A j \in StoppedIdx :
        /\ j = Len(applied)
        /\ applied[j].at = Len(invocations)
        /\ run_flag = "Stopped"
        /\ lpc \in {"match", "while", "idle"}
        /\ lpc = "idle" => run_result = RunOk
        /\ applied[j].command = CommandOf(quit_Parser.name) =>
              /\ applied[j].result = ApplyOk("Applied")
              /\ invocations[applied[j].at] =
                    Invocation_Print(<<"Exiting.", "\n">>, Ok(<<>>))

C18_Witness ==
    /\ lpc = "idle"
    /\ run_result = RunOk
    /\ run_flag = "Stopped"
    /\ Len(lines) = 1
    /\ Len(applied) = 1
    /\ applied[1].command = CommandOf(quit_Parser.name)
    /\ Len(invocations) = 3
    /\ invocations[3].text = <<"Exiting.", "\n">>


\* a step that calls run()
RunCalled == lpc = "idle" /\ lpc' # "idle"

\* C19: every call of run(), the first and those after run() has returned Ok
\* or an access failure, sets the Run State to Running and starts with last
\* outcome Applied, so that the first prompt of the call is the applied-prompt
\* whatever the last outcome of the call before was; the call resets neither
\* the context nor the terminal
C19_RunReentrant ==
    /\ []((runs >= 1 /\ Len(invocations) > started_at) =>
             /\ invocations[started_at + 1].op = "Print"
             /\ invocations[started_at + 1].text = <<"+>> ">>)
    /\ [][RunCalled =>
             /\ run_flag' = "Running"
             /\ last_command_outcome' = "Applied"
             /\ context' = context
             /\ lines' = lines
             /\ invocations' = invocations
             /\ lpc' = "while"]_vars

C19_Witness ==
    /\ runs = 2
    /\ run_flag = "Running"
    /\ context = 1
    /\ started_at = 3
    /\ invocations[3].text = <<"Command error: ", "cooling pump exploded", ".", "\n">>
    /\ invocations[3].ok
    /\ Len(invocations) > 3
    /\ invocations[4].text = <<"+>> ">>
    /\ lpc = "apply"


\* this call of run() has returned an error
RunFailed == lpc = "idle" /\ run_result.kind = "Err"

\* the last terminal operation of this call of run() was made by the loop
\* itself (a prompt, a line read, an "Invalid input" or a "Command error"
\* line) and failed with e
LoopAccessFailed(e) ==
    /\ Len(invocations) > started_at
    /\ ~invocations[Len(invocations)].ok
    /\ invocations[Len(invocations)].err = e
    /\ \A j \in 1..Len(applied) : applied[j].at < Len(invocations)

\* the action applied last returned the access failure e
ApplyAccessFailed(e) ==
    /\ applied # <<>>
    /\ applied[Len(applied)].result = AccessTerminal(e)
    /\ applied[Len(applied)].at = Len(invocations)

\* C20: run() returns an error only for an access failure, of a print or read
\* of the loop or returned by an action's apply; the errors of lines that
\* failed to resolve and the Application errors are never returned
C20_OnlyAccessFailuresReturned ==
    RunFailed =>
        /\ LoopAccessFailed(run_result.err) \/ ApplyAccessFailed(run_result.err)
        /\ \A k \in FailedIdx :
              run_result.err # commander_parse(commander, trim(invocations[k].val)).result.err
        /\ \A j \in 1..Len(applied) :
              applied[j].result.kind = "Application" => run_result.err # applied[j].result.err

C20_Witness ==
    /\ RunFailed
    /\ run_result = RunErr(<<"no more lines">>)
    /\ FailedIdx = {2}
    /\ Len(applied) = 1
    /\ applied[1].result = Application(<<"cooling pump exploded">>)
    /\ invocations[Len(invocations)].op = "ReadLine"


\* a step of read_value inside run()
ReadValueStep == lpc = "read_command" /\ invocations' # invocations

\* C21: read_value retries only when the parser fails. When the print of the
\* prompt fails it returns the failure without reading; when the read of the
\* line fails it returns the failure without calling the parser or printing;
\* when the print of the "Invalid input" line fails it returns the failure
\* without prompting again; in each case run() returns that failure
C21_NoRetryAfterAccessFailure ==
    [][ReadValueStep =>
          LET n == Len(invocations)
              log == invocations'
          IN /\ ~log[n + 1].ok =>
                   /\ Len(log) = n + 1
                   /\ lines' = lines
                   /\ parsed' = parsed /\ calls' = calls
                   /\ lpc' = "idle" /\ run_result' = RunErr(log[n + 1].err)
             /\ (Len(log) >= n + 2 /\ ~log[n + 2].ok) =>
                   /\ Len(log) = n + 2
                   /\ log[n + 2].op = "ReadLine"
                   /\ parsed' = parsed /\ calls' = calls
                   /\ lpc' = "idle" /\ run_result' = RunErr(log[n + 2].err)
             /\ (Len(log) >= n + 3 /\ ~log[n + 3].ok) =>
                   /\ Len(log) = n + 3
                   /\ log[n + 3].text[1] = "Invalid input: "
                   /\ lpc' = "idle" /\ run_result' = RunErr(log[n + 3].err)
             /\ lpc' = "read_command" =>
                   /\ Len(log) = n + 3
                   /\ \A i \in (n + 1)..(n + 3) : log[i].ok
                   /\ parsed' # None /\ ~parsed'[1].result.ok ]_vars

C21_Witness ==
    /\ runs = 2
    /\ lpc = "idle"
    /\ started_at = 1
    /\ ~invocations[1].ok
    /\ Len(invocations) = 4
    /\ invocations[3].val = <<104>>
    /\ invocations[4].text[1] = "Invalid input: "
    /\ ~invocations[4].ok
    /\ Len(lines) = 1
    /\ run_result = RunErr(<<"print failed">>)


\* the three prompts of the loop
Prompts == {<<"+>> ">>, <<"->> ">>, <<"!>> ">>}

\* positions in the log of the lines of this call of run() that resolved
ResolvedIdx ==
    {k \in ReadIdx :
        k > started_at /\ commander_parse(commander, trim(invocations[k].val)).result.ok}

\* the action the line at position k resolved to
ResolvedAt(k) == commander_parse(commander, trim(invocations[k].val)).result.val

\* C22: within a run every line read by the loop is immediately preceded by
\* a print of the prompt, every action produced by a successful resolve is
\* applied exactly once, in the order of the lines and before the next prompt
\* is printed (what the log holds between the line and the end of its apply
\* was recorded inside that apply), and at most one action is being applied
\* at any time
C22_OneCycleAtATime ==
    /\ \A k \in 1..Len(invocations) :
          (invocations[k].op = "ReadLine" /\ k \notin by_action) =>
             /\ k >= 2
             /\ invocations[k - 1].op = "Print"
             /\ invocations[k - 1].text \in Prompts
             /\ invocations[k - 1].ok
             /\ k - 1 \notin by_action
    /\ Cardinality(ResolvedIdx) = Len(applied) + (IF lpc = "apply" THEN 1 ELSE 0)
    /\ \A k \in ResolvedIdx :
          LET j == Cardinality({m \in ResolvedIdx : m <= k}) IN
          IF j <= Len(applied)
          THEN /\ applied[j].command = ResolvedAt(k)
               /\ applied[j].at >= k
               /\ (k + 1)..applied[j].at \subseteq by_action
          ELSE /\ lpc = "apply"
               /\ command = Some(ResolvedAt(k))
               /\ k = Len(invocations)

C22_Witness ==
    /\ runs = 1
    /\ lpc = "idle"
    /\ run_result = RunOk
    /\ ResolvedIdx = {2, 5}
    /\ by_action = {3, 6}
    /\ Len(applied) = 2
    /\ applied[1].command = CommandOf(user_Parser.name)
    /\ applied[1].result = ApplyOk("Skipped")
    /\ applied[1].at = 3
    /\ invocations[3].op = "Print"
    /\ applied[2].command = CommandOf(quit_Parser.name)
    /\ Len(invocations) = 6


\* a step that applies the quit action
QuitApplied == lpc = "apply" /\ command = Some(CommandOf(quit_Parser.name)) /\ lpc' = "match"

\* the quit actions applied in this call of run() that returned Applied
QuitIdx ==
    {j \in 1..Len(applied) :
        applied[j].command = CommandOf(quit_Parser.name) /\ applied[j].result.kind = "Applied"}

\* C23: the quit action sets the Run State to Stopped, prints the line
\* "Exiting." and returns Applied, and the loop returns right after it; when
\* the print of "Exiting." fails it returns that access failure with the Run
\* State already Stopped. Its parser accepts only the empty argument text
C23_Quit ==
    /\ [][QuitApplied =>
             LET printed == invocations'[Len(invocations) + 1] IN
             /\ run_flag' = "Stopped"
             /\ Len(invocations') = Len(invocations) + 1
             /\ printed.op = "Print"
             /\ printed.text = <<"Exiting.", "\n">>
             /\ result' = IF printed.ok THEN ApplyOk("Applied")
                          ELSE AccessTerminal(printed.err)
             /\ context' = context]_vars
    /\ [](\A j \in QuitIdx :
             /\ j = Len(applied)
             /\ applied[j].at = Len(invocations)
             /\ lpc \in {"match", "while", "idle"}
             /\ lpc = "idle" => run_result = RunOk)
    /\ []((calls # <<>> /\ MatchedParser = quit_Parser) =>
             /\ parsed[1].result.ok <=> calls[1][2] = <<>>
             /\ ~parsed[1].result.ok =>
                   parsed[1].result.err =
                      <<"invalid arguments to '", <<113, 117, 105, 116>>, "': '", calls[1][2], "'">>)

C23_Witness ==
    /\ lpc = "match"
    /\ Len(applied) = 1
    /\ applied[1].command = CommandOf(quit_Parser.name)
    /\ result = AccessTerminal(<<"print failed">>)
    /\ run_flag = "Stopped"
    /\ Len(invocations) = 6
    /\ invocations[2].val = <<113, Space, 104>>
    /\ invocations[3].text =
          <<"Invalid input: ", "invalid arguments to '", <<113, 117, 105, 116>>, "': '", <<104>>, "'", ".", "\n">>
    /\ invocations[5].val = <<113>>
    /\ invocations[6].text = <<"Exiting.", "\n">>


\* C24: parse_no_args(s, ctor) succeeds, with the action built by ctor, if and
\* only if s is the empty string; for every other s, those of whitespace only
\* included, it fails with "invalid arguments to '<name>': '<s>'" and builds
\* no action
C24_ParseNoArgs ==
    (pc = "Ok" /\ parsed # None /\ calls # <<>>) =>
        LET p == parsers[calls[1][1] + 1]
            s == calls[1][2]
            r == parsed[1].result
        IN /\ r.ok <=> s = <<>>
           /\ r.ok => r.val = CommandOf(p.name)
           /\ ~r.ok =>
                 /\ r.err = <<"invalid arguments to '", p.name, "': '", s, "'">>
                 /\ r.val = <<>>

C24_Witness ==
    /\ pc = "Ok"
    /\ N = 1
    /\ parsers[1].name = <<103, 103>>
    /\ parsers[1].shorthand = Some(<<103>>)
    /\ parsed # None
    /\ parsed[1].input = <<103, Space, Space>>
    /\ calls = <<<<0, <<Space>>>>>>
    /\ parsed[1].result = Err(<<"invalid arguments to '", <<103, 103>>, "': '", <<Space>>, "'">>)


(***************************************************************************)
(* Vocabulary of the properties of the lint engine.                        *)
(***************************************************************************)
\* validate has returned a verdict
Validated == failed # None

\* the verdict holds lint l
Flagged(l) == \E i \in 1..Len(failed[1]) : failed[1][i] = l

\* s has a last character and it is the full stop
EndsWithPeriod(s) == s # <<>> /\ s[Len(s)] = Period

\* C25 as stated: validate flags PurposeDoesNotEndWithPeriod if and only if
\* the last character of the trimmed purpose is not '.'
C25_Original ==
    Validated =>
        (Flagged("PurposeDoesNotEndWithPeriod") <=> ~EndsWithPeriod(trim(description.purpose)))

\* C25, amended: validate flags PurposeDoesNotEndWithPeriod if and only if
\* the purpose is not empty and its last character, whitespace included, is
\* not '.'
C25_PeriodOfUntrimmedPurpose ==
    Validated =>
        (Flagged("PurposeDoesNotEndWithPeriod") <=>
            (description.purpose # <<>> /\ ~EndsWithPeriod(description.purpose)))

C25_Witness ==
    /\ Validated
    /\ description.purpose = <<71, Period, Space>>
    /\ failed[1] = <<"PurposeHasExcessWhitespace", "PurposeDoesNotEndWithPeriod">>


\* s begins with the characters of t
BeginsWith(s, t) == \E n \in 0..Len(s) : SubSeq(s, 1, n) = t

\* C26: validate flags UsageBeginsWithCommandName if and only if the usage is
\* not empty and starts with the command's own name; an empty usage is never
\* flagged by this rule
C26_UsageBeginsWithName ==
    Validated =>
        /\ Flagged("UsageBeginsWithCommandName") <=>
              (description.usage # <<>> /\ BeginsWith(description.usage, lint_name))
        /\ description.usage = <<>> => ~Flagged("UsageBeginsWithCommandName")

C26_Witness ==
    /\ Validated
    /\ lint_name = <<71, 103>>
    /\ description.usage = <<71, 103, Space>>
    /\ description.purpose = <<71, Period>>
    /\ description.examples = <<>>
    /\ failed[1] = <<"UsageHasExcessWhitespace", "UsageBeginsWithCommandName">>


\* the lints of a list of <<lint, violated>> pairs that are violated, in order
Violated(rules) ==
    LET hit == SelectSeq(rules, LAMBDA r : r[2]) IN
    [i \in 1..Len(hit) |-> hit[i][1]]

\* the rules of the purpose and of the usage, in the order of validation; a
\* rule on the first or last character is not checked on an empty string
DescriptionRules ==
    LET p == description.purpose
        u == description.usage
    IN <<<<"PurposeHasExcessWhitespace", trim(p) # p>>,
         <<"PurposeIsEmpty", p = <<>>>>,
         <<"PurposeDoesNotBeginWithUppercase", p # <<>> /\ ~is_uppercase(p[1])>>,
         <<"PurposeDoesNotEndWithPeriod", p # <<>> /\ p[Len(p)] # Period>>,
         <<"UsageHasExcessWhitespace", trim(u) # u>>,
         <<"UsageBeginsWithCommandName", u # <<>> /\ BeginsWith(u, lint_name)>> >>

\* the rules of an example
ExampleRules(ex) ==
    LET sc == ex.scenario
        c == ex.command
    IN <<<<"ExampleScenarioHasExcessWhitespace", trim(sc) # sc>>,
         <<"ExampleScenarioIsEmpty", sc = <<>>>>,
         <<"ExampleScenarioBeginsWithUppercase", sc # <<>> /\ is_uppercase(sc[1])>>,
         <<"ExampleScenarioEndsWithPeriod", sc # <<>> /\ sc[Len(sc)] = Period>>,
         <<"ExampleCommandHasExcessWhitespace", trim(c) # c>>,
         <<"ExampleCommandIsEmpty", c = <<>>>>,
         <<"ExampleCommandBeginsWithCommandName", c # <<>> /\ BeginsWith(c, lint_name)>> >>

\* the violated lints of the examples from the k-th on, in list order
RECURSIVE ExampleViolations(_)
ExampleViolations(k) ==
    IF k > Len(description.examples) THEN <<>>
    ELSE Violated(ExampleRules(description.examples[k])) \o ExampleViolations(k + 1)

\* C27: validate collects every violated lint, in the order purpose
\* (whitespace, empty, uppercase, period), usage (whitespace, name), then
\* each example in list order (scenario whitespace, empty, uppercase, period;
\* command whitespace, empty, name); the checks on a first or last character
\* and on the name are skipped on an empty string and nothing else is; the
\* verdict is empty exactly when no rule is violated
C27_AllViolationsInOrder ==
    Validated =>
        /\ failed[1] = Violated(DescriptionRules) \o ExampleViolations(1)
        /\ failed[1] = <<>> <=>
              /\ \A i \in 1..Len(DescriptionRules) : ~DescriptionRules[i][2]
              /\ \A k \in 1..Len(description.examples) :
                    \A i \in 1..7 : ~ExampleRules(description.examples[k])[i][2]

C27_Witness ==
    /\ Validated
    /\ lint_name = <<103>>
    /\ description.purpose = <<>>
    /\ description.usage = <<Space, 103>>
    /\ description.examples = <<[scenario |-> <<Period, Space>>, command |-> <<103, Space>>],
                                [scenario |-> <<>>, command |-> <<>>]>>
    /\ failed[1] = <<"PurposeIsEmpty", "UsageHasExcessWhitespace",
                     "ExampleScenarioHasExcessWhitespace",
                     "ExampleCommandHasExcessWhitespace",
                     "ExampleCommandBeginsWithCommandName",
                     "ExampleScenarioIsEmpty", "ExampleCommandIsEmpty">>


\* the lints of an example, in the order of ExampleRules
ExampleLints == SubSeq(Lints, 7, 13)

\* how many times the verdict holds lint l
TimesFlagged(l) == Cardinality({n \in 1..Len(failed[1]) : failed[1][n] = l})

\* how many examples violate the i-th rule of an example
ExamplesViolating(i) ==
    Cardinality({k \in 1..Len(description.examples) :
                    ExampleRules(description.examples[k])[i][2]})

\* C28: for each example validate flags ExampleScenarioHasExcessWhitespace
\* iff the scenario differs from its trimmed form, ExampleScenarioIsEmpty iff
\* it is empty, ExampleScenarioBeginsWithUppercase iff its first character is
\* uppercase, ExampleScenarioEndsWithPeriod iff its last character is '.',
\* ExampleCommandHasExcessWhitespace iff the command differs from its trimmed
\* form, ExampleCommandIsEmpty iff it is empty and
\* ExampleCommandBeginsWithCommandName iff a non-empty command starts with
\* the command's own name: each lint is flagged once for every example that
\* violates its rule
C28_ExampleRules ==
    Validated =>
        \A i \in 1..7 :
            TimesFlagged(ExampleLints[i]) = ExamplesViolating(i)

C28_Witness ==
    /\ Validated
    /\ lint_name = <<71, 103>>
    /\ description.purpose = <<71, Period>>
    /\ description.usage = <<>>
    /\ description.examples = <<[scenario |-> <<71>>, command |-> <<71, 103>>]>>
    /\ failed[1] = <<"ExampleScenarioBeginsWithUppercase",
                     "ExampleCommandBeginsWithCommandName">>


\* the violated lints of the parser, in the order of validation
Verdict == Violated(DescriptionRules) \o ExampleViolations(1)

\* positions of the verdict whose lint is not among the exclusions ex
NotExcluded(ex) == {n \in 1..Len(Verdict) : Verdict[n] \notin ex}

\* C29: lint::assert(parser, exclusions) panics if and only if the verdict of
\* validate(parser) holds a lint that is not in exclusions, and the message
\* names the first such lint in verdict order; assert_pedantic(parser), the
\* same with no exclusions, panics if and only if the verdict is not empty;
\* neither panics when every violated lint is excluded
C29_AssertHonoursExclusions ==
    panicked # None =>
        LET ex == panicked[1].exclusions
            message == panicked[1].message
            bad == NotExcluded(ex)
        IN /\ message # None <=> bad # {}
           /\ message # None =>
                 message[1] = <<"failed lint: ",
                                Verdict[CHOOSE n \in bad : \A m \in bad : n <= m]>>
           /\ ex = {} => (message # None <=> Verdict # <<>>)

C29_Witness ==
    /\ panicked # None
    /\ description.purpose = <<71, Period, Space>>
    /\ description.usage = <<Space, 103>>
    /\ panicked[1].exclusions = {"PurposeHasExcessWhitespace"}
    /\ panicked[1].message = Some(<<"failed lint: ", "PurposeDoesNotEndWithPeriod">>)

(***************************************************************************)
(* The Mock terminal called directly: Mock::default()                      *)
(* .on_print(delegate).on_read_line(lines(script)). An AccessTerminalError *)
(* is its message, which is also its to_string().                          *)
(***************************************************************************)
\* the number of calls made on the Mock
MaxCalls == 4

\* a read_line that records successful reads only
mock_read_line_unrecorded_failure(inv, ls) ==
    LET rd == lines_next(ls) IN
    [result |-> rd.result,
     invocations |-> IF rd.result.ok THEN Append(inv, Invocation_ReadLine(rd.result)) ELSE inv,
     lines |-> rd.lines]

\* Mock::read_line(), the delegate being the closure of lines(...): what it
\* returns, the invocations and the closure's lines afterwards
mock_read_line(inv, ls) ==
    LET rd == lines_next(ls) IN
    [result |-> rd.result,
     invocations |-> Append(inv, Invocation_ReadLine(rd.result)),
     lines |-> rd.lines]

\* texts printed: "", "hi"
MockTexts == {<<>>, <<104, 105>>}

\* lines of the scripts: "", "one", "two"
MockLines == {<<>>, <<111, 110, 101>>, <<116, 119, 111>>}

MockScripts == UNION {[1..k -> MockLines] : k \in 0..MaxLines}

\* Mock::default().on_read_line(lines(script)), before any call
InitMock ==
    /\ script \in MockScripts
    /\ lines = script
    /\ invocations = <<>>
    /\ last_call = None
    /\ run_flag = RunFlag_default
    /\ context = 0
    /\ last_command_outcome = "Applied"
    /\ lpc = "idle"
    /\ command = None
    /\ result = NoResult
    /\ run_result = NoResult
    /\ runs = 0
    /\ applied = <<>>
    /\ started_at = 0
    /\ by_action = {}
    /\ NoCommanderBuilt
    /\ NoLint
    /\ NoReader

\* mock.print(text), the print delegate returning r
MockPrint ==
    /\ Len(invocations) < MaxCalls
    /\ \E text \in MockTexts, r \in DelegateResults :
         /\ invocations' = mock_print(invocations, text, r)
         /\ last_call' = Some([op |-> "print", text |-> text, result |-> r])
    /\ UNCHANGED <<lines, script>>
    /\ UNCHANGED <<run_flag, context, last_command_outcome, lpc, command, result,
                   run_result, runs, applied, started_at, by_action>>
    /\ UNCHANGED <<cvars, ovars, tvars, rvars>>

\* mock.read_line()
MockReadLine ==
    /\ Len(invocations) < MaxCalls
    /\ LET rd == mock_read_line(invocations, lines) IN
         /\ invocations' = rd.invocations
         /\ lines' = rd.lines
         /\ last_call' = Some([op |-> "read_line", text |-> <<>>, result |-> rd.result])
    /\ UNCHANGED script
    /\ UNCHANGED <<run_flag, context, last_command_outcome, lpc, command, result,
                   run_result, runs, applied, started_at, by_action>>
    /\ UNCHANGED <<cvars, ovars, tvars, rvars>>

NextMock == MockPrint \/ MockReadLine

SpecMock == InitMock /\ [][NextMock]_vars

(***************************************************************************)
(* Vocabulary of the properties of read_from_str and                       *)
(* read_from_str_default.                                                  *)
(***************************************************************************)
\* the lines submitted so far, trimmed, in the order they were read
TrimmedLinesRead ==
    LET reads == SelectSeq(invocations, LAMBDA x : x.op = "ReadLine" /\ x.ok)
    IN [i \in 1..Len(reads) |-> trim(reads[i].val)]

\* the call returned the value v right after the line at position k
ReturnedAt(k, v) ==
    /\ k = Len(invocations)
    /\ rpc = "idle"
    /\ read_result # None
    /\ read_result[1].ok
    /\ read_result[1].val = v

\* "Invalid input: <e>." was printed as one line right after the line at
\* position k
RejectedAt(k, e) ==
    /\ k + 1 <= Len(invocations)
    /\ invocations[k + 1].op = "Print"
    /\ invocations[k + 1].text = <<"Invalid input: ">> \o e \o <<".", "\n">>

\* after the rejection of the line at position k the prompt is printed again
PromptedAgain(k) ==
    IF k + 1 < Len(invocations)
    THEN /\ invocations[k + 2].op = "Print"
         /\ invocations[k + 2].text = ReadPrompt
    ELSE rpc = "read_value"

\* the call returned the failure of the print right after the line at
\* position k, and nothing was printed or read after it
ReturnedPrintFailure(k) ==
    /\ k + 1 = Len(invocations)
    /\ rpc = "idle"
    /\ read_result # None
    /\ ~read_result[1].ok
    /\ read_result[1].err = invocations[k + 1].err

\* the line at position k, trimmed to t, was treated as read_from_str treats
\* it, whatever the print of the "Invalid input" line returns
AsReadFromStrAlways(k, t) ==
    LET r == char_from_str(t) IN
    IF r.ok THEN ReturnedAt(k, r.val)
    ELSE RejectedAt(k, r.err) /\ PromptedAgain(k)

\* the line at position k, trimmed to t, was treated as read_from_str treats
\* it
AsReadFromStr(k, t) ==
    LET r == char_from_str(t) IN
    IF r.ok THEN ReturnedAt(k, r.val)
    ELSE /\ RejectedAt(k, r.err)
         /\ IF invocations[k + 1].ok THEN PromptedAgain(k) ELSE ReturnedPrintFailure(k)

\* C30 as stated: read_from_str_default returns the default, without calling
\* from_str and without prompting again, for a line that is empty or
\* whitespace only; any other line it treats as read_from_str treats the
\* trimmed line, printing "Invalid input: <err>." and prompting again for
\* every line that does not parse.
C30_Original ==
    reader = "read_from_str_default" =>
        /\ from_str_calls = SelectSeq(TrimmedLinesRead, LAMBDA t : t # <<>>)
        /\ \A k \in ReadIdx :
             LET t == trim(invocations[k].val) IN
             IF t = <<>> THEN ReturnedAt(k, char_default) ELSE AsReadFromStrAlways(k, t)

\* C30: read_from_str_default returns the default, without calling from_str
\* and without prompting again, for a line that is empty or whitespace only;
\* any other line it treats as read_from_str treats the trimmed line: a line
\* that parses is returned, a line that does not is answered with
\* "Invalid input: <err>." and, provided that print succeeds, the prompt again;
\* when that print fails the call returns the failure. read_from_str hands
\* every trimmed line to from_str, the empty one included.
C30_DefaultOnBlankLine ==
    reader # "none" =>
        /\ from_str_calls =
             IF reader = "read_from_str_default"
             THEN SelectSeq(TrimmedLinesRead, LAMBDA t : t # <<>>)
             ELSE TrimmedLinesRead
        /\ \A k \in ReadIdx :
             LET t == trim(invocations[k].val) IN
             IF reader = "read_from_str_default" /\ t = <<>>
             THEN ReturnedAt(k, char_default)
             ELSE AsReadFromStr(k, t)

\* "gh" is rejected and the prompt printed again, then " " returns the
\* default: from_str saw "gh" only
C30_Witness ==
    /\ reader = "read_from_str_default"
    /\ rpc = "idle"
    /\ Len(invocations) = 5
    /\ invocations[2].val = <<103, 104>>
    /\ invocations[3].text = <<"Invalid input: ", "too many characters in string", ".", "\n">>
    /\ invocations[4].text = ReadPrompt
    /\ invocations[5].op = "ReadLine"
    /\ invocations[5].val = <<Space>>
    /\ read_result # None
    /\ read_result[1].ok
    /\ read_result[1].val = char_default
    /\ from_str_calls = <<(<<103, 104>>)>>

(***************************************************************************)
(* Frame, exits and termination of Looper::run.                            *)
(***************************************************************************)
\* the step is the apply of an action
ApplyStep == lpc = "apply" /\ lpc' = "match"

\* C31: the loop never writes the application context or the Commander: the
\* context changes only in the step that is an action's apply, and the
\* Commander (its list and both maps) is the same after every step of run().
C31_LoopFrame ==
    [][/\ commander' = commander
       /\ parsers' = parsers
       /\ (context' # context => ApplyStep)]_vars

\* "h" was reported as invalid, "g" was resolved and its apply changed the
\* context, and the loop reacted to the outcome
C31_Witness ==
    /\ lpc = "while"
    /\ context = 1
    /\ Len(invocations) = 5
    /\ invocations[2].val = <<104>>
    /\ invocations[3].op = "Print"
    /\ invocations[5].val = <<103>>
    /\ Len(applied) = 1
    /\ commander = commander_new(LoopParsers)

\* run() has returned Ok
RunReturnedOk == lpc = "idle" /\ run_result = RunOk

\* the failure run() returned arose right after the last apply: it is the
\* access failure the apply returned, or that of the print of its "Command
\* error" line
FailedAfterApply ==
    /\ applied # <<>>
    /\ LET a == applied[Len(applied)] IN
       \/ a.result.kind = "AccessTerminal" /\ a.at = Len(invocations)
       \/ /\ a.result.kind = "Application"
          /\ a.at + 1 = Len(invocations)
          /\ ~invocations[a.at + 1].ok

\* the step in which run() returns
RunReturns == lpc # "idle" /\ lpc' = "idle"

\* C32: a freshly built Looper is Stopped; whenever run() has returned Ok the
\* Run State is Stopped; whenever it has returned an access failure the Run
\* State is as the failing action left it when the failure arose right after
\* an apply, and Running otherwise; the step in which run() returns does not
\* write the flag.
C32_RunStateAtExit ==
    /\ [](/\ runs = 0 => run_flag = "Stopped"
          /\ RunReturnedOk => run_flag = "Stopped"
          /\ RunFailed =>
                run_flag = IF FailedAfterApply THEN applied[Len(applied)].flag
                           ELSE "Running")
    /\ [][RunReturns => run_flag' = run_flag]_vars

\* quit stopped the flag and its print of "Exiting." failed: run() returned
\* the failure with the flag Stopped
C32_Witness ==
    /\ RunFailed
    /\ run_flag = "Stopped"
    /\ Len(applied) = 1
    /\ applied[1].command = CommandOf(quit_Parser.name)
    /\ applied[1].result = AccessTerminal(<<"print failed">>)
    /\ run_result = RunErr(<<"print failed">>)

\* C33: every call of run() sets the Run State to Running before the first
\* loop test, whatever it was; so when run() has returned Ok, that call has
\* printed the applied-prompt first, has read a line, and has applied at least
\* one action, the last of which left the Run State Stopped.
C33_NoReturnOkWithoutAction ==
    /\ [][RunCalled => (run_flag' = "Running" /\ lpc' = "while")]_vars
    /\ [](RunReturnedOk =>
            /\ Len(RunLog) >= 2
            /\ RunLog[1].op = "Print" /\ RunLog[1].ok /\ RunLog[1].text = <<"+>> ">>
            /\ \E k \in ReadIdx : k > started_at
            /\ applied # <<>>
            /\ applied[Len(applied)].flag = "Stopped")

\* the second call of run(), made after a quit, returned Ok only after it had
\* prompted, read "q" and applied quit again
C33_Witness ==
    /\ runs = 2
    /\ RunReturnedOk
    /\ started_at = 3
    /\ Len(invocations) = 6
    /\ invocations[4].text = <<"+>> ">>
    /\ invocations[5].val = <<113>>
    /\ Len(applied) = 1
    /\ applied[1].command = CommandOf(quit_Parser.name)

\* the actions, matched by the loop, that left the Run State Stopped and did
\* not return an access failure
StopRequests ==
    {j \in Reacted : applied[j].flag = "Stopped" /\ applied[j].result.kind # "AccessTerminal"}

\* after apply j, and the n lines the loop logged for it, this call of run()
\* logs nothing more, applies nothing more and returns Ok
ReturnsOkAfter(j, n) ==
    /\ j = Len(applied)
    /\ applied[j].at + n = Len(invocations)
    /\ run_flag = "Stopped"
    /\ lpc \in {"while", "idle"}
    /\ lpc = "idle" => run_result = RunOk

\* C34 as stated: when an action sets the Run State to Stopped and returns an
\* Application error, the loop prints "Command error: <err>." and then returns
\* Ok without printing the error-prompt or reading another line; a stop is
\* honoured for every outcome but an access failure.
C34_Original ==
    \A j \in StopRequests :
        IF applied[j].result.kind = "Application"
        THEN CommandErrorPrinted(j) /\ ReturnsOkAfter(j, 1)
        ELSE ReturnsOkAfter(j, 0)

\* C34: when an action sets the Run State to Stopped and returns an
\* Application error, the loop prints "Command error: <err>." and, provided
\* that print succeeds, returns Ok without printing the error-prompt or reading
\* another line; when that print fails run() returns its access failure, the
\* flag still Stopped. After Applied or Skipped with the flag Stopped run()
\* returns Ok.
C34_StopHonouredAfterError ==
    \A j \in StopRequests :
        IF applied[j].result.kind = "Application"
        THEN /\ CommandErrorPrinted(j)
             /\ IF invocations[applied[j].at + 1].ok
                THEN ReturnsOkAfter(j, 1)
                ELSE /\ j = Len(applied)
                     /\ applied[j].at + 1 = Len(invocations)
                     /\ run_flag = "Stopped"
                     /\ lpc = "idle"
                     /\ run_result = RunErr(invocations[applied[j].at + 1].err)
        ELSE ReturnsOkAfter(j, 0)

\* "g" stopped the flag and returned an Application error: the "Command
\* error" line was printed and run() returned Ok with a line left unread
C34_Witness ==
    /\ RunReturnedOk
    /\ Len(lines) = 1
    /\ Len(applied) = 1
    /\ applied[1].result = Application(<<"cooling pump exploded">>)
    /\ applied[1].flag = "Stopped"
    /\ Len(invocations) = 3
    /\ invocations[3] =
          Invocation_Print(<<"Command error: ", "cooling pump exploded", ".", "\n">>, Ok(<<>>))

\* the actions, matched by the loop, that returned Applied or Skipped with the
\* Run State Running
RunningAfter ==
    {j \in Reacted :
        applied[j].flag = "Running" /\ applied[j].result.kind \in {"Applied", "Skipped"}}

\* after apply j the loop goes round again: the next thing logged is the
\* prompt for its outcome
NextIteration(j) ==
    LET a == applied[j].at IN
    IF a < Len(invocations)
    THEN /\ invocations[a + 1].op = "Print"
         /\ invocations[a + 1].text = prompt(from_outcome(applied[j].result.kind))
    ELSE /\ lpc \in {"while", "read_command"}
         /\ run_result = NoResult

\* C35: only the Run State at the loop test matters. An action that calls
\* stop() and then start() before its apply returns leaves the flag Running,
\* and after an action that returned Applied or Skipped with the flag Running
\* the loop goes round again; when run() returns with the flag Running, it
\* returns an access failure.
C35_OnlyBoundaryValueMatters ==
    /\ [](/\ \A j \in 1..Len(applied) :
                applied[j].effect = "stop_start" => applied[j].flag = "Running"
          /\ \A j \in RunningAfter : NextIteration(j))
    /\ [][(RunReturns /\ run_flag = "Running") => run_result'.kind = "Err"]_vars

\* "g" called stop() and start() and returned Applied: the applied-prompt was
\* printed again and the next line, "q", was read and applied
C35_Witness ==
    /\ Len(applied) = 2
    /\ applied[1].effect = "stop_start"
    /\ applied[1].result = ApplyOk("Applied")
    /\ applied[1].at = 2
    /\ invocations[3] = Invocation_Print(<<"+>> ">>, Ok(<<>>))
    /\ invocations[4].val = <<113>>
    /\ applied[2].command = CommandOf(quit_Parser.name)
    /\ RunReturnedOk

(***************************************************************************)
(* A definition whose shorthand is its own name.                           *)
(***************************************************************************)
\* the definitions of the list whose shorthand equals their own name
SelfColliding == {j \in 1..Len(parsers) : parsers[j].shorthand = Some(parsers[j].name)}

\* C36 as stated: a single definition whose shorthand equals its own name is
\* rejected, construction failing with "duplicate command parser for '<key>'".
C36_Original ==
    (pc # "try_from" /\ Len(parsers) = 1) =>
        \A j \in SelfColliding :
            FailedAt(j, <<"duplicate command parser for '", parsers[j].name, "'">>)

\* C36: a single definition whose shorthand equals its own name is always
\* rejected. The error is that of its first unparsable example if it has one,
\* else "invalid command name ..." if its name is shorter than 2 bytes, else
\* "duplicate command parser for '<key>'", the name being checked against a
\* shorthand map that holds the definition's own shorthand.
C36_OwnShorthandRejected ==
    (pc # "try_from" /\ Len(parsers) = 1) =>
        \A j \in SelfColliding :
            LET p == parsers[j] IN
            /\ pc = "Err"
            /\ index = j - 1
            /\ commander = NoCommander
            /\ IF Rule1Violated(j)
               THEN err[1] = "unparsable example command '"
               ELSE IF StrLen(p.name) < 2
               THEN err = <<"invalid command name '", p.name,
                            "': must contain at least 2 characters">>
               ELSE err = <<"duplicate command parser for '", p.name, "'">>

\* the definition "gg" with shorthand "gg" and no example
C36_Witness ==
    /\ parsers = <<[name |-> <<103, 103>>, shorthand |-> Some(<<103, 103>>),
                    examples |-> <<>>]>>
    /\ FailedAt(1, <<"duplicate command parser for '", <<103, 103>>, "'">>)

(***************************************************************************)
(* The lookup order of parse.                                              *)
(***************************************************************************)
\* the lookup of an identifier made the other way round: name map first,
\* shorthand map second
lookup_name_first(c, name) ==
    IF name \in DOMAIN c.by_name THEN Some(c.by_name[name])
    ELSE IF name \in DOMAIN c.by_shorthand THEN Some(c.by_shorthand[name])
    ELSE None

\* the identifiers looked up: every string parse may be given, and every
\* name and shorthand of the list
Identifiers ==
    ParseInputs \cup {parsers[j].name : j \in 1..Len(parsers)}
                \cup {parsers[j].shorthand[1] :
                        j \in {k \in 1..Len(parsers) : parsers[k].shorthand # None}}

\* C37: in a constructed Commander no identifier is a key of both maps, so
\* looking an identifier up in the name map first resolves to the same
\* definition, or to the same miss, as the lookup of parse.
C37_LookupOrderIrrelevant ==
    pc = "Ok" =>
        /\ DOMAIN commander.by_shorthand \cap DOMAIN commander.by_name = {}
        /\ \A id \in Identifiers : lookup(commander, id) = lookup_name_first(commander, id)

\* a Commander with a shorthand "g" for its first definition resolved "gg",
\* the name of its second, through the name map
C37_Witness ==
    /\ pc = "Ok"
    /\ Len(parsers) = 2
    /\ parsers[1].shorthand = Some(<<103>>)
    /\ parsers[2].name = <<103, 103>>
    /\ parsed # None
    /\ parsed[1].input = <<103, 103>>
    /\ calls = <<<<1, <<>>>>>>

(***************************************************************************)
(* Termination of run() on a finite script.                                *)
(***************************************************************************)
\* run() has returned
RunReturned == lpc = "idle" /\ runs >= 1

\* an action applied in this call of run() left the Run State Stopped
SomeActionStopped == \E j \in 1..Len(applied) : applied[j].flag = "Stopped"

\* every call of run() returns
RunTerminates == (lpc # "idle") ~> (lpc = "idle")

\* no print has failed and no action has returned an access failure
TerminalWorked ==
    /\ \A i \in 1..Len(invocations) : invocations[i].op = "Print" => invocations[i].ok
    /\ AccessErrIdx = {}

\* C38 as stated: on a finite script, with actions whose apply returns, every
\* call of run() returns: Ok if an applied action left the Run State Stopped,
\* otherwise the access failure of the exhausted input.
C38_Original ==
    /\ RunTerminates
    /\ [](RunReturned =>
            run_result = IF SomeActionStopped THEN RunOk ELSE RunErr(<<"no more lines">>))

\* C38: on a finite script, with actions whose apply returns, every call of
\* run() returns. It returns Ok exactly when the last applied action left the
\* Run State Stopped, did not return an access failure, and the print of its
\* "Command error" line, if any, succeeded; otherwise it returns an access
\* failure, of the loop's own terminal calls or of an action, which is that
\* of the exhausted input when no print failed and no action returned one.
C38_RunTerminates ==
    /\ RunTerminates
    /\ [](RunReturned =>
            /\ run_result = RunOk <=>
                  /\ applied # <<>>
                  /\ applied[Len(applied)].flag = "Stopped"
                  /\ ~FailedAfterApply
            /\ run_result # RunOk =>
                  /\ run_result.kind = "Err"
                  /\ LoopAccessFailed(run_result.err) \/ ApplyAccessFailed(run_result.err)
                  /\ TerminalWorked =>
                        (run_result = RunErr(<<"no more lines">>) /\ lines = <<>>))

\* the script "h", "" gave two parse errors and ran out: run() returned the
\* failure of the third read
C38_Witness ==
    /\ RunReturned
    /\ run_result = RunErr(<<"no more lines">>)
    /\ FailedIdx = {2, 5}
    /\ Len(invocations) = 8
    /\ invocations[8] = Invocation_ReadLine(Err(<<"no more lines">>))
    /\ applied = <<>>
    /\ lines = <<>>

(***************************************************************************)
(* The Mock terminal and the scripted reader.                              *)
(***************************************************************************)
\* the read_line invocations recorded, in order
ReadsRecorded == SelectSeq(invocations, LAMBDA x : x.op = "ReadLine")

\* what the k-th call of the closure of lines(script) is to return
Scripted(k) ==
    IF k <= Len(script) THEN Ok(script[k]) ELSE Err(<<"no more lines">>)

\* C39: the k-th call of the reader lines(xs) returns xs[k] while k is within
\* the script, in order and each line once, and AccessTerminalError("no more
\* lines") on every call after that.
C39_ScriptedReader ==
    LET n == Len(ReadsRecorded) IN
    /\ \A k \in 1..n : ReadsRecorded[k] = Invocation_ReadLine(Scripted(k))
    /\ lines = SubSeq(script, (IF n <= Len(script) THEN n ELSE Len(script)) + 1, Len(script))
    /\ (last_call # None /\ last_call[1].op = "read_line") => last_call[1].result = Scripted(n)

\* the script "one", "two" was read in order and two more reads both failed
C39_Witness ==
    /\ script = <<(<<111, 110, 101>>), (<<116, 119, 111>>)>>
    /\ Len(ReadsRecorded) = 4
    /\ invocations[1].val = <<111, 110, 101>>
    /\ invocations[2].val = <<116, 119, 111>>
    /\ invocations[3] = Invocation_ReadLine(Err(<<"no more lines">>))
    /\ invocations[4] = Invocation_ReadLine(Err(<<"no more lines">>))
    /\ last_call = Some([op |-> "read_line", text |-> <<>>,
                         result |-> Err(<<"no more lines">>)])

\* C40: every call of print and of read_line on the Mock appends exactly one
\* Invocation to the record, after those already there, which are neither
\* removed nor reordered; it carries the printed text or the line read and the
\* result that the call returned to its caller, for a call that failed as for
\* one that succeeded.
C40_MockRecordsEveryCall ==
    [][LET n == Len(invocations) IN
       /\ Len(invocations') = n + 1
       /\ SubSeq(invocations', 1, n) = invocations
       /\ last_call' # None
       /\ LET c == last_call'[1]
              recorded == invocations'[n + 1]
          IN /\ recorded.op = (IF c.op = "print" THEN "Print" ELSE "ReadLine")
             /\ recorded.text = c.text
             /\ recorded.ok = c.result.ok
             /\ recorded.val = c.result.val
             /\ recorded.err = c.result.err]_vars

\* a print that failed and a read that failed on the empty script are both
\* on record, in call order
C40_Witness ==
    /\ script = <<>>
    /\ invocations = <<Invocation_Print(<<104, 105>>, Err(<<"print failed">>)),
                       Invocation_ReadLine(Err(<<"no more lines">>))>>
    /\ last_call = Some([op |-> "read_line", text |-> <<>>,
                         result |-> Err(<<"no more lines">>)])

====
